---------------------------- MODULE Spec2Model ----------------------------
(***************************************************************************)
(* A model of the slot/flexibility lattice (kailua_check/src/ty/slot.rs)   *)
(* and of the hierarchical type report (kailua_check/src/diag.rs).         *)
(***************************************************************************)
EXTENDS Integers, Sequences, FiniteSets, TLC

VARIABLES
    cells,      \* the heap of slot cells: cells[i] is the S behind Arc #i
    last,       \* the last Slot operation: its arguments, pre-state and result
    messages,   \* TypeReport.messages, most recent last
    rlast,      \* the last TypeReport operation and whether it panicked
    spans,      \* the two spans a caller holds
    slast,      \* the last Span operation: its arguments, result and panic
    queue,      \* the items of the report being rendered that are not yet drained
    hint,       \* the TypeReportHint threaded through the rendering
    rendered,   \* one entry per drained item: the item, the hint around it, its messages
    iter,       \* a Span used as an iterator, and the calls made on it with their results
    fmt,        \* the last call of a formatter of diag.rs: its input and what it wrote
    chain,      \* a ReportMore chain: its sink, the calls made, its result
    unlifted    \* the cells of the UnliftedSlot values alive, each holding a read guard

slotVars == <<cells, last>>
reportVars == <<messages, rlast>>
spanVars == <<spans, slast>>
renderVars == <<queue, hint, rendered>>
extVars == <<iter, fmt, chain, unlifted>>
vars == <<cells, last, messages, rlast, spans, slast, queue, hint, rendered,
          iter, fmt, chain, unlifted>>

(***************************************************************************)
(* Bounds of the model.                                                    *)
(***************************************************************************)
\* slots the checker keeps alive at once; a union may allocate one more
MaxCells == 2
\* items of the reports every operation is followed on
MaxItems == 1

(***************************************************************************)
(* Value types.  The structural comparison of value types lives outside    *)
(* the modelled sources; a type is the set of primitive values it admits.  *)
(***************************************************************************)
T_None == [dyn |-> "No", atoms |-> {}]
T_Integer == [dyn |-> "No", atoms |-> {"int"}]
T_Number == [dyn |-> "No", atoms |-> {"int", "nonint"}]
T_String == [dyn |-> "No", atoms |-> {"str"}]
T_Dynamic(dyn) == [dyn |-> dyn, atoms |-> {}]

\* Dyn::union: the error-recovery kind wins over the user-written one
DynUnion(dyn1, dyn2) == IF dyn1 = "Oops" \/ dyn2 = "Oops" THEN "Oops" ELSE "User"

\* Lattice::assert_sub for Ty: "Ok" or the failure
TyAssertSub(t, u) ==
    IF t.dyn # "No" \/ u.dyn # "No" THEN "Ok"
    ELSE IF t.atoms \subseteq u.atoms THEN "Ok" ELSE "TyNotSubtype"

\* Lattice::assert_eq for Ty: "Ok" or the failure
TyAssertEq(t, u) ==
    IF t.dyn # "No" \/ u.dyn # "No" THEN "Ok"
    ELSE IF t.atoms = u.atoms THEN "Ok" ELSE "TyNotEqual"

\* Union::union for Ty: an explicit union keeps both sides; an implicit one
\* can only shrink, so it needs one side to cover the other
TyUnion(t, u, explicit) ==
    IF t.dyn # "No" \/ u.dyn # "No"
    THEN [ret |-> "Ok", ty |-> T_Dynamic(DynUnion(IF t.dyn = "No" THEN u.dyn ELSE t.dyn,
                                                  IF u.dyn = "No" THEN t.dyn ELSE u.dyn))]
    ELSE IF explicit \/ t.atoms \subseteq u.atoms \/ u.atoms \subseteq t.atoms
         THEN [ret |-> "Ok", ty |-> [dyn |-> "No", atoms |-> t.atoms \cup u.atoms]]
         ELSE [ret |-> "TyCannotUnion", ty |-> T_None]

(***************************************************************************)
(* Slot flexibility F and slot types S.                                    *)
(***************************************************************************)
F_Any == "Any"
F_Dynamic(dyn) == IF dyn = "Oops" THEN "Dynamic_Oops" ELSE "Dynamic_User"
F_Just == "Just"
F_Const == "Const"
F_Var == "Var"

F == {F_Any, F_Dynamic("User"), F_Dynamic("Oops"), F_Just, F_Const, F_Var}

IsDynamic(flex) == flex \in {"Dynamic_User", "Dynamic_Oops"}
DynOf(flex) == IF flex = "Dynamic_Oops" THEN "Oops" ELSE "User"

S(flex, ty) == [flex |-> flex, ty |-> ty]

\* the types slots are created with
TyInputs == {T_Integer, T_Number, T_String}

\* the slots Slot::new is called with: a Dynamic slot carries the dynamic type
SlotInputs ==
    {S(f, t) : f \in {F_Any, F_Just, F_Const, F_Var}, t \in TyInputs}
        \cup {S(F_Dynamic(d), T_Dynamic(d)) : d \in {"User", "Oops"}}


\* a variant of S::union whose Var arms widen the type instead of requiring
\* equal types
S_union_VarWidens(self, other, explicit) ==
    IF IsDynamic(self.flex) /\ IsDynamic(other.flex) THEN
        LET dyn == DynUnion(DynOf(self.flex), DynOf(other.flex)) IN
        [ret |-> "Ok", s |-> S(F_Dynamic(dyn), T_Dynamic(dyn))]
    ELSE IF IsDynamic(self.flex) THEN
        [ret |-> "Ok", s |-> S(self.flex, T_Dynamic(DynOf(self.flex)))]
    ELSE IF IsDynamic(other.flex) THEN
        [ret |-> "Ok", s |-> S(other.flex, T_Dynamic(DynOf(other.flex)))]
    ELSE IF self.flex = F_Any \/ other.flex = F_Any THEN
        [ret |-> "Ok", s |-> S(F_Any, T_None)]
    ELSE IF self.flex = F_Just /\ other.flex = F_Just THEN
        LET u == TyUnion(self.ty, other.ty, explicit) IN
        [ret |-> u.ret, s |-> S(F_Just, u.ty)]
    ELSE IF <<self.flex, other.flex>> \in
                {<<F_Var, F_Var>>, <<F_Var, F_Just>>, <<F_Just, F_Var>>} THEN
        LET u == TyUnion(self.ty, other.ty, TRUE) IN
        [ret |-> u.ret, s |-> S(F_Var, u.ty)]
    ELSE
        LET u == TyUnion(self.ty, other.ty, explicit) IN
        [ret |-> u.ret, s |-> S(F_Const, u.ty)]

\* a variant of S::union that tests for Any before it tests for Dynamic
S_union_AnyFirst(self, other, explicit) ==
    IF self.flex = F_Any \/ other.flex = F_Any THEN
        [ret |-> "Ok", s |-> S(F_Any, T_None)]
    ELSE IF IsDynamic(self.flex) /\ IsDynamic(other.flex) THEN
        LET dyn == DynUnion(DynOf(self.flex), DynOf(other.flex)) IN
        [ret |-> "Ok", s |-> S(F_Dynamic(dyn), T_Dynamic(dyn))]
    ELSE IF IsDynamic(self.flex) THEN
        [ret |-> "Ok", s |-> S(self.flex, T_Dynamic(DynOf(self.flex)))]
    ELSE IF IsDynamic(other.flex) THEN
        [ret |-> "Ok", s |-> S(other.flex, T_Dynamic(DynOf(other.flex)))]
    ELSE IF self.flex = F_Just /\ other.flex = F_Just THEN
        LET u == TyUnion(self.ty, other.ty, explicit) IN
        [ret |-> u.ret, s |-> S(F_Just, u.ty)]
    ELSE IF <<self.flex, other.flex>> \in
                {<<F_Var, F_Var>>, <<F_Var, F_Just>>, <<F_Just, F_Var>>} THEN
        [ret |-> TyAssertEq(self.ty, other.ty), s |-> S(F_Var, self.ty)]
    ELSE
        LET u == TyUnion(self.ty, other.ty, explicit) IN
        [ret |-> u.ret, s |-> S(F_Const, u.ty)]

\* a variant of S::union whose one-sided Dynamic arm keeps the left type
S_union_DynamicKeepsType(self, other, explicit) ==
    IF IsDynamic(self.flex) /\ IsDynamic(other.flex) THEN
        LET dyn == DynUnion(DynOf(self.flex), DynOf(other.flex)) IN
        [ret |-> "Ok", s |-> S(F_Dynamic(dyn), T_Dynamic(dyn))]
    ELSE IF IsDynamic(self.flex) THEN
        [ret |-> "Ok", s |-> S(self.flex, T_Dynamic(DynOf(self.flex)))]
    ELSE IF IsDynamic(other.flex) THEN
        [ret |-> "Ok", s |-> S(other.flex, self.ty)]
    ELSE IF self.flex = F_Any \/ other.flex = F_Any THEN
        [ret |-> "Ok", s |-> S(F_Any, T_None)]
    ELSE IF self.flex = F_Just /\ other.flex = F_Just THEN
        LET u == TyUnion(self.ty, other.ty, explicit) IN
        [ret |-> u.ret, s |-> S(F_Just, u.ty)]
    ELSE IF <<self.flex, other.flex>> \in
                {<<F_Var, F_Var>>, <<F_Var, F_Just>>, <<F_Just, F_Var>>} THEN
        [ret |-> TyAssertEq(self.ty, other.ty), s |-> S(F_Var, self.ty)]
    ELSE
        LET u == TyUnion(self.ty, other.ty, explicit) IN
        [ret |-> u.ret, s |-> S(F_Const, u.ty)]

\* a variant of S::union that lifts Just/Just to Const
S_union_JustLifted(self, other, explicit) ==
    IF IsDynamic(self.flex) /\ IsDynamic(other.flex) THEN
        LET dyn == DynUnion(DynOf(self.flex), DynOf(other.flex)) IN
        [ret |-> "Ok", s |-> S(F_Dynamic(dyn), T_Dynamic(dyn))]
    ELSE IF IsDynamic(self.flex) THEN
        [ret |-> "Ok", s |-> S(self.flex, T_Dynamic(DynOf(self.flex)))]
    ELSE IF IsDynamic(other.flex) THEN
        [ret |-> "Ok", s |-> S(other.flex, T_Dynamic(DynOf(other.flex)))]
    ELSE IF self.flex = F_Any \/ other.flex = F_Any THEN
        [ret |-> "Ok", s |-> S(F_Any, T_None)]
    ELSE IF <<self.flex, other.flex>> \in
                {<<F_Var, F_Var>>, <<F_Var, F_Just>>, <<F_Just, F_Var>>} THEN
        [ret |-> TyAssertEq(self.ty, other.ty), s |-> S(F_Var, self.ty)]
    ELSE
        LET u == TyUnion(self.ty, other.ty, explicit) IN
        [ret |-> u.ret, s |-> S(F_Const, u.ty)]

\* S::union (slot.rs, the match on the two flexes)
S_union(self, other, explicit) ==
    IF IsDynamic(self.flex) /\ IsDynamic(other.flex) THEN
        LET dyn == DynUnion(DynOf(self.flex), DynOf(other.flex)) IN
        [ret |-> "Ok", s |-> S(F_Dynamic(dyn), T_Dynamic(dyn))]
    ELSE IF IsDynamic(self.flex) THEN
        [ret |-> "Ok", s |-> S(self.flex, T_Dynamic(DynOf(self.flex)))]
    ELSE IF IsDynamic(other.flex) THEN
        [ret |-> "Ok", s |-> S(other.flex, T_Dynamic(DynOf(other.flex)))]
    ELSE IF self.flex = F_Any \/ other.flex = F_Any THEN
        [ret |-> "Ok", s |-> S(F_Any, T_None)]
    ELSE IF self.flex = F_Just /\ other.flex = F_Just THEN
        LET u == TyUnion(self.ty, other.ty, explicit) IN
        [ret |-> u.ret, s |-> S(F_Just, u.ty)]
    ELSE IF <<self.flex, other.flex>> \in
                {<<F_Var, F_Var>>, <<F_Var, F_Just>>, <<F_Just, F_Var>>} THEN
        [ret |-> TyAssertEq(self.ty, other.ty), s |-> S(F_Var, self.ty)]
    ELSE
        LET u == TyUnion(self.ty, other.ty, explicit) IN
        [ret |-> u.ret, s |-> S(F_Const, u.ty)]

\* a variant of S::assert_sub without the arm for an Any right-hand side
S_assert_sub_NoAny(self, other) ==
    IF IsDynamic(other.flex) \/ IsDynamic(self.flex) THEN "Ok"
    ELSE IF self.flex = F_Just \/ other.flex = F_Const THEN TyAssertSub(self.ty, other.ty)
    ELSE IF self.flex = F_Var /\ other.flex = F_Var THEN TyAssertEq(self.ty, other.ty)
    ELSE "error_not_sub"

\* a variant of S::assert_sub whose Var/Var arm is covariant
S_assert_sub_VarSub(self, other) ==
    IF other.flex = F_Any THEN "Ok"
    ELSE IF IsDynamic(other.flex) \/ IsDynamic(self.flex) THEN "Ok"
    ELSE IF self.flex = F_Just \/ other.flex = F_Const THEN TyAssertSub(self.ty, other.ty)
    ELSE IF self.flex = F_Var /\ other.flex = F_Var THEN TyAssertSub(self.ty, other.ty)
    ELSE "error_not_sub"

\* a variant of S::assert_sub whose Just/Const arm is invariant
S_assert_sub_JustEq(self, other) ==
    IF other.flex = F_Any THEN "Ok"
    ELSE IF IsDynamic(other.flex) \/ IsDynamic(self.flex) THEN "Ok"
    ELSE IF self.flex = F_Just \/ other.flex = F_Const THEN TyAssertEq(self.ty, other.ty)
    ELSE IF self.flex = F_Var /\ other.flex = F_Var THEN TyAssertEq(self.ty, other.ty)
    ELSE "error_not_sub"

\* a variant of S::assert_sub that compares the types of a Const against a Var
S_assert_sub_ConstVar(self, other) ==
    IF other.flex = F_Any THEN "Ok"
    ELSE IF IsDynamic(other.flex) \/ IsDynamic(self.flex) THEN "Ok"
    ELSE IF self.flex = F_Just \/ other.flex = F_Const THEN TyAssertSub(self.ty, other.ty)
    ELSE IF self.flex \in {F_Var, F_Const} /\ other.flex = F_Var
         THEN TyAssertEq(self.ty, other.ty)
    ELSE "error_not_sub"

\* S::assert_sub
S_assert_sub(self, other) ==
    IF other.flex = F_Any THEN "Ok"
    ELSE IF IsDynamic(other.flex) \/ IsDynamic(self.flex) THEN "Ok"
    ELSE IF self.flex = F_Just \/ other.flex = F_Const THEN TyAssertSub(self.ty, other.ty)
    ELSE IF self.flex = F_Var /\ other.flex = F_Var THEN TyAssertEq(self.ty, other.ty)
    ELSE "error_not_sub"

\* a variant of S::assert_eq without the Any/Any arm
S_assert_eq_NoAnyAny(self, other) ==
    IF IsDynamic(other.flex) \/ IsDynamic(self.flex) THEN "Ok"
    ELSE IF self.flex = other.flex /\ self.flex \in {F_Just, F_Const, F_Var}
         THEN TyAssertEq(self.ty, other.ty)
    ELSE "error_not_eq"

\* a variant of S::assert_eq that succeeds on every Any right-hand side
S_assert_eq_RightAny(self, other) ==
    IF other.flex = F_Any THEN "Ok"
    ELSE IF IsDynamic(other.flex) \/ IsDynamic(self.flex) THEN "Ok"
    ELSE IF self.flex = other.flex /\ self.flex \in {F_Just, F_Const, F_Var}
         THEN TyAssertEq(self.ty, other.ty)
    ELSE "error_not_eq"

\* S::assert_eq
S_assert_eq(self, other) ==
    IF self.flex = F_Any /\ other.flex = F_Any THEN "Ok"
    ELSE IF IsDynamic(other.flex) \/ IsDynamic(self.flex) THEN "Ok"
    ELSE IF self.flex = other.flex /\ self.flex \in {F_Just, F_Const, F_Var}
         THEN TyAssertEq(self.ty, other.ty)
    ELSE "error_not_eq"

(***************************************************************************)
(* Slot: a handle is the index of its cell in the heap, so two handles     *)
(* alias exactly when they are equal.  Every operation takes its guards in *)
(* the order of the code and keeps them to its end; an operation that asks *)
(* for a lock conflicting with a guard it already holds never returns      *)
(* ("Deadlock").                                                           *)
(***************************************************************************)
Guard(cell, mode) == [cell |-> cell, mode |-> mode]

\* parking_lot::RwLock within one control flow: a second guard on the same
\* cell blocks unless both are read guards
Blocks(guards) ==
    \E i, j \in 1..Len(guards) :
        /\ i < j
        /\ guards[i].cell = guards[j].cell
        /\ (guards[i].mode = "write" \/ guards[j].mode = "write")

Outcome(ret, cs, res) == [ret |-> ret, cells |-> cs, res |-> res]

\* Slot::new / Slot::from: a freshly allocated cell
Slot_new(cs, s) == Outcome("Ok", Append(cs, s), Len(cs) + 1)

\* a variant of Slot::adapt that rewrites the flex of every cell, Just or not
Slot_adapt_AnyCell(cs, a, flex) ==
    Outcome("Ok", [cs EXCEPT ![a].flex = IF flex \in {F_Const, F_Var} THEN flex ELSE @], 0)

\* Slot::adapt
Slot_adapt(cs, a, flex) ==
    IF cs[a].flex = F_Just
    THEN Outcome("Ok", [cs EXCEPT ![a].flex = IF flex \in {F_Const, F_Var} THEN flex ELSE F_Just], 0)
    ELSE Outcome("Ok", cs, 0)

\* a variant of the body of Slot::accept that leaves a Just cell Just
AcceptLocked_NoPromote(cs, a, b, init) ==
    LET lhs == cs[a]
        rhs == cs[b]
    IN  IF Blocks(<<Guard(a, "write"), Guard(b, "read")>>) THEN Outcome("Deadlock", cs, 0)
        ELSE IF IsDynamic(lhs.flex) THEN Outcome("Ok", cs, 0)
        ELSE IF rhs.flex = F_Any \/ lhs.flex = F_Any \/ (lhs.flex = F_Const /\ ~init)
             THEN Outcome("impossible to assign", cs, 0)
        ELSE IF IsDynamic(rhs.flex) THEN Outcome("Ok", cs, 0)
        ELSE Outcome(TyAssertSub(rhs.ty, lhs.ty), cs, 0)

\* a variant of the body of Slot::accept that lets a Const cell be assigned
\* outside its initialization
AcceptLocked_ConstLax(cs, a, b, init) ==
    LET lhs == cs[a]
        rhs == cs[b]
    IN  IF Blocks(<<Guard(a, "write"), Guard(b, "read")>>) THEN Outcome("Deadlock", cs, 0)
        ELSE IF IsDynamic(lhs.flex) THEN Outcome("Ok", cs, 0)
        ELSE IF rhs.flex = F_Any \/ lhs.flex = F_Any
             THEN Outcome("impossible to assign", cs, 0)
        ELSE IF IsDynamic(rhs.flex) THEN Outcome("Ok", cs, 0)
        ELSE IF lhs.flex \in {F_Var, F_Const} THEN Outcome(TyAssertSub(rhs.ty, lhs.ty), cs, 0)
        ELSE IF TyAssertSub(rhs.ty, lhs.ty) # "Ok"
             THEN Outcome(TyAssertSub(rhs.ty, lhs.ty), cs, 0)
        ELSE Outcome("Ok", [cs EXCEPT ![a].flex = F_Var], 0)

\* a variant of the body of Slot::accept that tests the refusals before the
\* Dynamic left-hand side
AcceptLocked_RefusalFirst(cs, a, b, init) ==
    LET lhs == cs[a]
        rhs == cs[b]
    IN  IF Blocks(<<Guard(a, "write"), Guard(b, "read")>>) THEN Outcome("Deadlock", cs, 0)
        ELSE IF rhs.flex = F_Any \/ lhs.flex = F_Any \/ (lhs.flex = F_Const /\ ~init)
             THEN Outcome("impossible to assign", cs, 0)
        ELSE IF IsDynamic(lhs.flex) \/ IsDynamic(rhs.flex) THEN Outcome("Ok", cs, 0)
        ELSE IF lhs.flex \in {F_Var, F_Const} THEN Outcome(TyAssertSub(rhs.ty, lhs.ty), cs, 0)
        ELSE IF TyAssertSub(rhs.ty, lhs.ty) # "Ok"
             THEN Outcome(TyAssertSub(rhs.ty, lhs.ty), cs, 0)
        ELSE Outcome("Ok", [cs EXCEPT ![a].flex = F_Var], 0)

\* a variant of the body of Slot::accept that refuses a Dynamic right-hand
\* side together with an Any one
AcceptLocked_RhsDynamicRefused(cs, a, b, init) ==
    LET lhs == cs[a]
        rhs == cs[b]
    IN  IF Blocks(<<Guard(a, "write"), Guard(b, "read")>>) THEN Outcome("Deadlock", cs, 0)
        ELSE IF IsDynamic(lhs.flex) THEN Outcome("Ok", cs, 0)
        ELSE IF rhs.flex = F_Any \/ lhs.flex = F_Any \/ (lhs.flex = F_Const /\ ~init)
                \/ IsDynamic(rhs.flex)
             THEN Outcome("impossible to assign", cs, 0)
        ELSE IF lhs.flex \in {F_Var, F_Const} THEN Outcome(TyAssertSub(rhs.ty, lhs.ty), cs, 0)
        ELSE IF TyAssertSub(rhs.ty, lhs.ty) # "Ok"
             THEN Outcome(TyAssertSub(rhs.ty, lhs.ty), cs, 0)
        ELSE Outcome("Ok", [cs EXCEPT ![a].flex = F_Var], 0)

\* a variant of the body of Slot::accept whose Just arm promotes the cell
\* before it compares the types
AcceptLocked_PromotesFirst(cs, a, b, init) ==
    LET lhs == cs[a]
        rhs == cs[b]
    IN  IF Blocks(<<Guard(a, "write"), Guard(b, "read")>>) THEN Outcome("Deadlock", cs, 0)
        ELSE IF IsDynamic(lhs.flex) THEN Outcome("Ok", cs, 0)
        ELSE IF rhs.flex = F_Any \/ lhs.flex = F_Any \/ (lhs.flex = F_Const /\ ~init)
             THEN Outcome("impossible to assign", cs, 0)
        ELSE IF IsDynamic(rhs.flex) THEN Outcome("Ok", cs, 0)
        ELSE IF lhs.flex = F_Var THEN Outcome(TyAssertSub(rhs.ty, lhs.ty), cs, 0)
        ELSE IF lhs.flex = F_Const THEN Outcome(TyAssertSub(rhs.ty, lhs.ty), cs, 0)
        ELSE Outcome(TyAssertSub(rhs.ty, lhs.ty), [cs EXCEPT ![a].flex = F_Var], 0)

\* the body of Slot::accept after the identity test
AcceptLocked(cs, a, b, init) ==
    LET lhs == cs[a]
        rhs == cs[b]
    IN  IF Blocks(<<Guard(a, "write"), Guard(b, "read")>>) THEN Outcome("Deadlock", cs, 0)
        ELSE IF IsDynamic(lhs.flex) THEN Outcome("Ok", cs, 0)
        ELSE IF rhs.flex = F_Any \/ lhs.flex = F_Any \/ (lhs.flex = F_Const /\ ~init)
             THEN Outcome("impossible to assign", cs, 0)
        ELSE IF IsDynamic(rhs.flex) THEN Outcome("Ok", cs, 0)
        ELSE IF lhs.flex = F_Var THEN Outcome(TyAssertSub(rhs.ty, lhs.ty), cs, 0)
        ELSE IF lhs.flex = F_Const THEN Outcome(TyAssertSub(rhs.ty, lhs.ty), cs, 0)
        ELSE IF TyAssertSub(rhs.ty, lhs.ty) # "Ok"
             THEN Outcome(TyAssertSub(rhs.ty, lhs.ty), cs, 0)
        ELSE Outcome("Ok", [cs EXCEPT ![a].flex = F_Var], 0)

\* a variant of Slot::accept without the identity test
Slot_accept_NoIdentity(cs, a, b, init) == AcceptLocked(cs, a, b, init)

\* Slot::accept
Slot_accept(cs, a, b, init) ==
    IF a = b THEN Outcome("Ok", cs, 0) ELSE AcceptLocked(cs, a, b, init)

\* a variant of Slot::accept_in_place that leaves a Just cell Just
Slot_accept_in_place_NoPromote(cs, a) ==
    IF IsDynamic(cs[a].flex) THEN Outcome("Ok", cs, 0)
    ELSE IF cs[a].flex \in {F_Any, F_Const} THEN Outcome("impossible to update", cs, 0)
    ELSE Outcome("Ok", cs, 0)

\* Slot::accept_in_place
Slot_accept_in_place(cs, a) ==
    IF IsDynamic(cs[a].flex) THEN Outcome("Ok", cs, 0)
    ELSE IF cs[a].flex \in {F_Any, F_Const} THEN Outcome("impossible to update", cs, 0)
    ELSE IF cs[a].flex = F_Var THEN Outcome("Ok", cs, 0)
    ELSE Outcome("Ok", [cs EXCEPT ![a].flex = F_Var], 0)

\* Flags: the coarse masks a type is narrowed by, and the values each admits
Flags == {"T_INTEGER", "T_NUMBER", "T_STRING"}

FlagAtoms(flags) ==
    CASE flags = "T_INTEGER" -> {"int"}
      [] flags = "T_NUMBER" -> {"int", "nonint"}
      [] flags = "T_STRING" -> {"str"}

\* Ty::filter_by_flags: the subset of the type the mask admits, or a failure
\* when the type context cannot narrow the type (narrows = FALSE)
TyFilterByFlags(t, flags, narrows) ==
    IF ~narrows THEN [ret |-> "TyCannotFilter", ty |-> t]
    ELSE IF t.dyn # "No" THEN [ret |-> "Ok", ty |-> t]
    ELSE [ret |-> "Ok", ty |-> [dyn |-> "No", atoms |-> t.atoms \cap FlagAtoms(flags)]]

\* Ty::new(T::None).or_nil(Nil::Absent), the type a slot holds while it is
\* being narrowed
NoValidType == T_None

\* a variant of Slot::filter_by_flags that puts the prior type back when the
\* narrowing fails
Slot_filter_by_flags_KeepsPrior(cs, a, flags, narrows) ==
    LET t == TyFilterByFlags(cs[a].ty, flags, narrows)
    IN  IF t.ret # "Ok" THEN Outcome(t.ret, cs, 0)
        ELSE Outcome("Ok", [cs EXCEPT ![a].ty = t.ty], 0)

\* Slot::filter_by_flags
Slot_filter_by_flags(cs, a, flags, narrows) ==
    LET replaced == [cs EXCEPT ![a].ty = NoValidType]
        t == TyFilterByFlags(cs[a].ty, flags, narrows)
    IN  IF t.ret # "Ok" THEN Outcome(t.ret, replaced, 0)
        ELSE Outcome("Ok", [replaced EXCEPT ![a].ty = t.ty], 0)

\* a variant of the body of Union::union for Slot that stores the result in
\* the left cell instead of a new one
UnionLocked_InPlace(cs, a, b, explicit) ==
    IF Blocks(<<Guard(a, "write"), Guard(b, "write")>>) THEN Outcome("Deadlock", cs, 0)
    ELSE LET u == S_union(cs[a], cs[b], explicit) IN
         IF u.ret = "Ok" THEN Outcome("Ok", [cs EXCEPT ![a] = u.s], a)
         ELSE Outcome(u.ret, cs, 0)

\* the body of Union::union for Slot after the identity test
UnionLocked(cs, a, b, explicit) ==
    IF Blocks(<<Guard(a, "write"), Guard(b, "write")>>) THEN Outcome("Deadlock", cs, 0)
    ELSE LET u == S_union(cs[a], cs[b], explicit) IN
         IF u.ret = "Ok" THEN Slot_new(cs, u.s) ELSE Outcome(u.ret, cs, 0)

\* Union::union for Slot
Slot_union(cs, a, b, explicit) ==
    IF a = b THEN Outcome("Ok", cs, a) ELSE UnionLocked(cs, a, b, explicit)

\* Lattice::assert_sub for Slot
Slot_assert_sub(cs, a, b) ==
    IF Blocks(<<Guard(a, "read"), Guard(b, "read")>>) THEN Outcome("Deadlock", cs, 0)
    ELSE Outcome(S_assert_sub(cs[a], cs[b]), cs, 0)

\* Lattice::assert_eq for Slot
Slot_assert_eq(cs, a, b) ==
    IF Blocks(<<Guard(a, "read"), Guard(b, "read")>>) THEN Outcome("Deadlock", cs, 0)
    ELSE Outcome(S_assert_eq(cs[a], cs[b]), cs, 0)

(***************************************************************************)
(* Positions and spans (kailua_env/src/loc.rs).  Unit 0 is the dummy unit. *)
(***************************************************************************)
\* the largest offset within a unit
MaxPos == 2
\* the source units besides the dummy unit
MaxUnit == 2

Pos(unit, pos) == [unit |-> unit, pos |-> pos]

\* Pos::dummy
Pos_dummy == Pos(0, 0)

\* Pos::is_dummy
Pos_is_dummy(p) == p.unit = 0

Span(unit, begin, end) == [unit |-> unit, begin |-> begin, end |-> end]

\* Span::dummy
Span_dummy == Span(0, 0, 0)

\* Span::is_dummy
Span_is_dummy(span) == span.unit = 0

\* the Span a call returns, or its panic
SOutcome(span, panicked) == [span |-> span, panicked |-> panicked]

\* a variant of Span::new that keeps the positions in the order given
Span_new_NoSwap(begin, end) ==
    IF Pos_is_dummy(begin) \/ Pos_is_dummy(end) THEN SOutcome(Span_dummy, FALSE)
    ELSE IF begin.unit # end.unit THEN SOutcome(Span_dummy, TRUE)
    ELSE SOutcome(Span(begin.unit, begin.pos, end.pos), FALSE)

\* Span::new: the assert! on the units panics
Span_new(begin, end) ==
    IF Pos_is_dummy(begin) \/ Pos_is_dummy(end) THEN SOutcome(Span_dummy, FALSE)
    ELSE IF begin.unit # end.unit THEN SOutcome(Span_dummy, TRUE)
    ELSE IF begin.pos <= end.pos THEN SOutcome(Span(begin.unit, begin.pos, end.pos), FALSE)
    ELSE SOutcome(Span(begin.unit, end.pos, begin.pos), FALSE)

Max(i, j) == IF i >= j THEN i ELSE j
Min(i, j) == IF i <= j THEN i ELSE j

\* BitAnd for Span
Span_bitand(self, other) ==
    IF Span_is_dummy(self) \/ Span_is_dummy(other) THEN Span_dummy
    ELSE IF self.unit = other.unit THEN
        LET begin == Max(self.begin, other.begin)
            end == Min(self.end, other.end)
        IN  IF begin > end THEN Span_dummy ELSE Span(self.unit, begin, end)
    ELSE Span_dummy

\* a variant of BitOr for Span that covers two spans of different units
Span_bitor_AcrossUnits(self, other) ==
    IF Span_is_dummy(self) THEN other
    ELSE IF Span_is_dummy(other) THEN self
    ELSE Span(self.unit, Min(self.begin, other.begin), Max(self.end, other.end))

\* BitOr for Span
Span_bitor(self, other) ==
    IF Span_is_dummy(self) THEN other
    ELSE IF Span_is_dummy(other) THEN self
    ELSE IF self.unit = other.unit
    THEN Span(self.unit, Min(self.begin, other.begin), Max(self.end, other.end))
    ELSE Span_dummy

\* WithLoc::with_loc and WithLoc::without_loc
with_loc(base, span) == [span |-> span, base |-> base]
without_loc(base) == [span |-> Span_dummy, base |-> base]

\* no Span operation pending
SIdle == [op |-> "none", p1 |-> Pos_dummy, p2 |-> Pos_dummy,
          a |-> Span_dummy, b |-> Span_dummy, out |-> Span_dummy, panicked |-> FALSE]

(***************************************************************************)
(* The slot state machine.  An operation is called while the caller holds  *)
(* no unconsumed result; Return is the caller taking the CheckResult.      *)
(***************************************************************************)
NoS == S("-", T_None)

Handles == 1..Len(cells)

\* the record of a call: arguments, the S of both operands before it, result
Record(op, a, b, flag, flex, out) ==
    [op |-> op, a |-> a, b |-> b, flag |-> flag, flex |-> flex,
     ret |-> out.ret, res |-> out.res,
     pa |-> IF a \in Handles THEN cells[a] ELSE NoS,
     pb |-> IF b \in Handles THEN cells[b] ELSE NoS]

NoOp == [op |-> "none", a |-> 0, b |-> 0, flag |-> FALSE, flex |-> "-",
         ret |-> "Ok", res |-> 0, pa |-> NoS, pb |-> NoS]

\* the report no operation has touched
RIdle == [op |-> "none", kind |-> "-", org |-> "-", text |-> <<"", "">>,
          spans |-> <<Span_dummy, Span_dummy>>, index |-> {},
          pre |-> <<>>, panicked |-> FALSE]

\* the parts of the state at rest
SlotAtRest == cells = <<>> /\ last = NoOp
ReportAtRest == messages = <<>> /\ rlast = RIdle
SpanAtRest == spans = <<Span_dummy, Span_dummy>> /\ slast = SIdle
RenderAtRest == queue = <<>> /\ hint = "None" /\ rendered = <<>>

\* the iterator, the formatter and the chain nothing has been called on
IterIdle == [orig |-> Span_dummy, cur |-> Span_dummy, calls |-> <<>>]
FmtIdle == [op |-> "none", index |-> 0, keys |-> <<>>, locale |-> "-",
            ord |-> [num |-> 0, word |-> ""], text |-> <<>>, panicked |-> FALSE]
ChainIdle == [sink |-> "-", collected |-> <<>>, calls |-> <<>>, result |-> "-",
              done |-> "-", panicked |-> FALSE]
IterAtRest == iter = IterIdle
FmtAtRest == fmt = FmtIdle
ChainAtRest == chain = ChainIdle
ExtAtRest == IterAtRest /\ FmtAtRest /\ ChainAtRest /\ unlifted = <<>>

InitSlot ==
    /\ ExtAtRest
    /\ SlotAtRest
    /\ ReportAtRest
    /\ SpanAtRest
    /\ RenderAtRest

Do(op, a, b, flag, flex, out) ==
    /\ last = NoOp
    /\ Len(cells) <= MaxCells
    /\ cells' = out.cells
    /\ last' = Record(op, a, b, flag, flex, out)
    /\ UNCHANGED <<reportVars, spanVars, renderVars, extVars>>

New ==
    \E s \in SlotInputs :
        /\ Len(cells) < MaxCells
        /\ Do("new", 0, 0, FALSE, "-", Slot_new(cells, s))

Adapt ==
    \E a \in Handles, flex \in {F_Any, F_Just, F_Const, F_Var} :
        Do("adapt", a, a, FALSE, flex, Slot_adapt(cells, a, flex))

Accept ==
    \E a \in Handles, b \in Handles, init \in BOOLEAN :
        Do("accept", a, b, init, "-", Slot_accept(cells, a, b, init))

AcceptInPlace ==
    \E a \in Handles :
        Do("accept_in_place", a, a, FALSE, "-", Slot_accept_in_place(cells, a))

FilterByFlags ==
    \E a \in Handles, flags \in Flags, narrows \in BOOLEAN :
        Do("filter_by_flags", a, a, narrows, flags,
           Slot_filter_by_flags(cells, a, flags, narrows))

Union ==
    \E a \in Handles, b \in Handles, explicit \in BOOLEAN :
        Do("union", a, b, explicit, "-", Slot_union(cells, a, b, explicit))

AssertSub ==
    \E a \in Handles, b \in Handles :
        Do("assert_sub", a, b, FALSE, "-", Slot_assert_sub(cells, a, b))

AssertEq ==
    \E a \in Handles, b \in Handles :
        Do("assert_eq", a, b, FALSE, "-", Slot_assert_eq(cells, a, b))

\* the caller consumes the CheckResult the operation returned
Return ==
    /\ last # NoOp
    /\ last.ret # "Deadlock"
    /\ last' = NoOp
    /\ UNCHANGED <<cells, reportVars, spanVars, renderVars, extVars>>

\* the last handle to a cell goes away and the Arc frees it
Drop ==
    \E i \in Handles :
        /\ last = NoOp
        /\ cells' = [j \in 1..(Len(cells) - 1) |-> IF j < i THEN cells[j] ELSE cells[j + 1]]
        /\ UNCHANGED <<last, reportVars, spanVars, renderVars, extVars>>

NextSlot ==
    \/ New
    \/ Adapt
    \/ Accept
    \/ AcceptInPlace
    \/ FilterByFlags
    \/ Union
    \/ AssertSub
    \/ AssertEq
    \/ Return
    \/ Drop

SpecSlot == InitSlot /\ [][NextSlot]_vars

(***************************************************************************)
(* Origin, BinaryReportKind, ReportItem and TypeReport (diag.rs).          *)
(***************************************************************************)
Origin == {"RVar", "TVar", "Tables", "Numbers", "Strings", "Functions",
           "Union", "TUnion", "T", "TTy", "Ty", "Slot"}

\* the discriminant of each Origin
OriginValue(org) ==
    CASE org = "RVar" -> 0
      [] org = "TVar" -> 1
      [] org = "Tables" -> 16
      [] org = "Numbers" -> 17
      [] org = "Strings" -> 18
      [] org = "Functions" -> 19
      [] org = "Union" -> 32
      [] org = "TUnion" -> 48
      [] org = "T" -> 64
      [] org = "TTy" -> 80
      [] org = "Ty" -> 96
      [] org = "Slot" -> 112

\* Origin::origin_class: the discriminant shifted right by four bits
origin_class(org) == OriginValue(org) \div 16

\* a variant of Origin::can_overwrite that lets an equal class overwrite
can_overwrite_Geq(self, prev) == origin_class(self) >= origin_class(prev)

\* Origin::can_overwrite
can_overwrite(self, prev) == origin_class(self) > origin_class(prev)

NotSubtype == "NotSubtype"
NotEqual == "NotEqual"
CannotUnion(explicit) == IF explicit THEN "CannotUnion(true)" ELSE "CannotUnion(false)"

BinaryReportKind == {NotSubtype, NotEqual, CannotUnion(TRUE), CannotUnion(FALSE)}

\* Option<usize> as a set: {} is None and {i} is Some(i)
None == {}
Some(i) == {i}

\* ReportItem::Binary(kind, org, lhs, rhs, idx)
Binary(kind, org, lhs, rhs, idx) ==
    [tag |-> "Binary", kind |-> kind, org |-> org, lhs |-> lhs, rhs |-> rhs, idx |-> idx]

\* ReportItem::InextensibleRec(span)
InextensibleRec(span) ==
    [tag |-> "InextensibleRec", kind |-> "-", org |-> "-",
     lhs |-> with_loc("", span), rhs |-> without_loc(""), idx |-> None]

\* ReportItem::LessArity(lhs, rhs, idx) and ReportItem::MoreArity(lhs, rhs, idx)
LessArity(span, rhs, idx) ==
    [tag |-> "LessArity", kind |-> "-", org |-> "-",
     lhs |-> with_loc("", span), rhs |-> rhs, idx |-> Some(idx)]
MoreArity(lhs, span, idx) ==
    [tag |-> "MoreArity", kind |-> "-", org |-> "-",
     lhs |-> lhs, rhs |-> with_loc("", span), idx |-> Some(idx)]

\* ReportItem::CannotUnionSingle(t)
CannotUnionSingle(t) ==
    [tag |-> "CannotUnionSingle", kind |-> "-", org |-> "-",
     lhs |-> t, rhs |-> without_loc(""), idx |-> None]

\* ReportItem::CannotAssign(org, lhs, rhs)
CannotAssign(org, lhs, rhs) ==
    [tag |-> "CannotAssign", kind |-> "-", org |-> org, lhs |-> lhs, rhs |-> rhs, idx |-> None]

\* ReportItem::CannotUpdate(org, t) and ReportItem::CannotFilter(org, t)
CannotUpdate(org, t) ==
    [tag |-> "CannotUpdate", kind |-> "-", org |-> org,
     lhs |-> t, rhs |-> without_loc(""), idx |-> None]
CannotFilter(org, t) ==
    [tag |-> "CannotFilter", kind |-> "-", org |-> org,
     lhs |-> t, rhs |-> without_loc(""), idx |-> None]

\* the record-shape items: a span, and the key or keys where there are any
RecursiveRec(span) ==
    [tag |-> "RecursiveRec", kind |-> "-", org |-> "-",
     lhs |-> with_loc("", span), rhs |-> without_loc(""), idx |-> None]
RecDuplicateKey(span, key) ==
    [tag |-> "RecDuplicateKey", kind |-> "-", org |-> "-",
     lhs |-> with_loc("", span), rhs |-> key, idx |-> None]
RecCannotHaveKey(span, key) ==
    [tag |-> "RecCannotHaveKey", kind |-> "-", org |-> "-",
     lhs |-> with_loc("", span), rhs |-> key, idx |-> None]
RecShouldHaveKeys(span, keys) ==
    [tag |-> "RecShouldHaveKeys", kind |-> "-", org |-> "-",
     lhs |-> with_loc("", span), rhs |-> keys, idx |-> None]
RecExtendedWithNonNil(span, key, v) ==
    [tag |-> "RecExtendedWithNonNil", kind |-> "-", org |-> "-",
     lhs |-> with_loc("", span), rhs |-> key, idx |-> None, val |-> v]

\* the report and whether the call panicked
ROutcome(msgs, panicked) == [messages |-> msgs, panicked |-> panicked]

Front(msgs) == SubSeq(msgs, 1, Len(msgs) - 1)
TailItem(msgs) == msgs[Len(msgs)]

\* a variant of TypeReport::binary whose first arm ignores attached spans
TypeReport_binary_NoSpanCheck(msgs, kind, org, lhs, rhs) ==
    IF /\ msgs # <<>>
       /\ TailItem(msgs).tag = "Binary"
       /\ \/ kind = TailItem(msgs).kind /\ can_overwrite(org, TailItem(msgs).org)
          \/ TailItem(msgs).org = "RVar"
    THEN ROutcome(Append(Front(msgs),
                         Binary(kind, org, with_loc(lhs, TailItem(msgs).lhs.span),
                                with_loc(rhs, TailItem(msgs).rhs.span), TailItem(msgs).idx)),
                  FALSE)
    ELSE ROutcome(Append(msgs, Binary(kind, org, without_loc(lhs), without_loc(rhs), None)),
                  FALSE)

\* a variant of TypeReport::binary whose first arm does not compare the kinds
TypeReport_binary_AnyKind(msgs, kind, org, lhs, rhs) ==
    IF /\ msgs # <<>>
       /\ TailItem(msgs).tag = "Binary"
       /\ \/ /\ can_overwrite(org, TailItem(msgs).org)
             /\ Span_is_dummy(TailItem(msgs).lhs.span)
             /\ Span_is_dummy(TailItem(msgs).rhs.span)
          \/ TailItem(msgs).org = "RVar"
    THEN ROutcome(Append(Front(msgs),
                         Binary(kind, org, with_loc(lhs, TailItem(msgs).lhs.span),
                                with_loc(rhs, TailItem(msgs).rhs.span), TailItem(msgs).idx)),
                  FALSE)
    ELSE ROutcome(Append(msgs, Binary(kind, org, without_loc(lhs), without_loc(rhs), None)),
                  FALSE)

\* TypeReport::binary: pop the tail, flatten into it or push it back
TypeReport_binary(msgs, kind, org, lhs, rhs) ==
    IF /\ msgs # <<>>
       /\ TailItem(msgs).tag = "Binary"
       /\ kind = TailItem(msgs).kind
       /\ can_overwrite(org, TailItem(msgs).org)
       /\ Span_is_dummy(TailItem(msgs).lhs.span)
       /\ Span_is_dummy(TailItem(msgs).rhs.span)
    THEN ROutcome(Append(Front(msgs),
                         Binary(kind, org, with_loc(lhs, TailItem(msgs).lhs.span),
                                with_loc(rhs, TailItem(msgs).rhs.span), TailItem(msgs).idx)),
                  FALSE)
    ELSE IF msgs # <<>> /\ TailItem(msgs).tag = "Binary" /\ TailItem(msgs).org = "RVar"
    THEN ROutcome(Append(Front(msgs),
                         Binary(kind, org, with_loc(lhs, TailItem(msgs).lhs.span),
                                with_loc(rhs, TailItem(msgs).rhs.span), TailItem(msgs).idx)),
                  FALSE)
    ELSE ROutcome(Append(msgs, Binary(kind, org, without_loc(lhs), without_loc(rhs), None)),
                  FALSE)

\* a variant of TypeReport::binary_attach_span that attaches over spans
\* already there
TypeReport_binary_attach_span_Again(msgs, kind, lhsspan, rhsspan) ==
    IF /\ msgs # <<>>
       /\ TailItem(msgs).tag = "Binary"
       /\ kind = TailItem(msgs).kind
    THEN ROutcome([msgs EXCEPT ![Len(msgs)].lhs.span = lhsspan,
                               ![Len(msgs)].rhs.span = rhsspan], FALSE)
    ELSE ROutcome(msgs, TRUE)

\* TypeReport::binary_attach_span
TypeReport_binary_attach_span(msgs, kind, lhsspan, rhsspan) ==
    IF /\ msgs # <<>>
       /\ TailItem(msgs).tag = "Binary"
       /\ kind = TailItem(msgs).kind
       /\ Span_is_dummy(TailItem(msgs).lhs.span)
       /\ Span_is_dummy(TailItem(msgs).rhs.span)
    THEN ROutcome([msgs EXCEPT ![Len(msgs)].lhs.span = lhsspan,
                               ![Len(msgs)].rhs.span = rhsspan], FALSE)
    ELSE ROutcome(msgs, TRUE)

\* a variant of TypeReport::binary_attach_index that attaches over an index
\* already there
TypeReport_binary_attach_index_Again(msgs, kind, org, index) ==
    IF /\ msgs # <<>>
       /\ TailItem(msgs).tag = "Binary"
       /\ kind = TailItem(msgs).kind
       /\ org = TailItem(msgs).org
    THEN ROutcome([msgs EXCEPT ![Len(msgs)].idx = Some(index)], FALSE)
    ELSE ROutcome(msgs, TRUE)

\* TypeReport::binary_attach_index
TypeReport_binary_attach_index(msgs, kind, org, index) ==
    IF /\ msgs # <<>>
       /\ TailItem(msgs).tag = "Binary"
       /\ kind = TailItem(msgs).kind
       /\ org = TailItem(msgs).org
       /\ TailItem(msgs).idx = None
    THEN ROutcome([msgs EXCEPT ![Len(msgs)].idx = Some(index)], FALSE)
    ELSE ROutcome(msgs, TRUE)

\* TypeReport::cannot_union_single
TypeReport_cannot_union_single(msgs, t) ==
    ROutcome(Append(msgs, CannotUnionSingle(without_loc(t))), FALSE)

\* a variant of TypeReport::less_arity that overwrites the tail
TypeReport_less_arity_Overwrites(msgs, lhs, rhs, index) ==
    ROutcome(Append(Front(msgs), LessArity(lhs, rhs, index)), FALSE)

\* TypeReport::less_arity and TypeReport::more_arity
TypeReport_less_arity(msgs, lhs, rhs, index) ==
    ROutcome(Append(msgs, LessArity(lhs, rhs, index)), FALSE)
TypeReport_more_arity(msgs, lhs, rhs, index) ==
    ROutcome(Append(msgs, MoreArity(lhs, rhs, index)), FALSE)

\* TypeReport::cannot_assign
TypeReport_cannot_assign(msgs, org, t, u) ==
    ROutcome(Append(msgs, CannotAssign(org, without_loc(t), without_loc(u))), FALSE)

\* TypeReport::cannot_assign_in_place
TypeReport_cannot_assign_in_place(msgs, org, t) ==
    ROutcome(Append(msgs, CannotUpdate(org, without_loc(t))), FALSE)

\* TypeReport::cannot_filter_by_flags
TypeReport_cannot_filter_by_flags(msgs, org, t) ==
    ROutcome(Append(msgs, CannotFilter(org, without_loc(t))), FALSE)

\* TypeReport::inextensible_record
TypeReport_inextensible_record(msgs) ==
    ROutcome(Append(msgs, InextensibleRec(Span_dummy)), FALSE)

\* TypeReport::recursive_record
TypeReport_recursive_record(msgs) ==
    ROutcome(Append(msgs, RecursiveRec(Span_dummy)), FALSE)

\* TypeReport::record_duplicate_key
TypeReport_record_duplicate_key(msgs, k) ==
    ROutcome(Append(msgs, RecDuplicateKey(Span_dummy, without_loc(k))), FALSE)

\* TypeReport::record_cannot_have_key
TypeReport_record_cannot_have_key(msgs, k) ==
    ROutcome(Append(msgs, RecCannotHaveKey(Span_dummy, without_loc(k))), FALSE)

\* TypeReport::record_should_have_keys
TypeReport_record_should_have_keys(msgs, keys) ==
    ROutcome(Append(msgs, RecShouldHaveKeys(Span_dummy, without_loc(keys))), FALSE)

\* TypeReport::record_extended_with_non_nil
TypeReport_record_extended_with_non_nil(msgs, k, v) ==
    ROutcome(Append(msgs, RecExtendedWithNonNil(Span_dummy, without_loc(k), without_loc(v))),
             FALSE)

(***************************************************************************)
(* The report state machine: one TypeReport built by a failing comparison  *)
(* as it propagates outward.  A panic ends the process.                    *)
(***************************************************************************)
\* the inputs of the report operations
KindInputs == BinaryReportKind
OrgInputs == {"RVar", "TVar", "Tables", "Numbers"}
TextInputs == {<<"integer", "number">>, <<"string", "number">>}
SpanInputs == {<<Span_dummy, Span(1, 1, 2)>>}
IndexInputs == {0}
\* the inputs of the appends that always push
PushOrgInputs == {"Slot"}
PushTextInputs == {"integer"}
KeyInputs == {"x"}
AritySpanInputs == {Span(1, 1, 2)}

\* the record of a report call: its arguments, the report before it, the result
RRecord(op, kind, org, text, out) ==
    [op |-> op, kind |-> kind, org |-> org, text |-> text,
     spans |-> <<Span_dummy, Span_dummy>>, index |-> None,
     pre |-> messages, panicked |-> out.panicked]

InitReport ==
    /\ ExtAtRest
    /\ SlotAtRest
    /\ ReportAtRest
    /\ SpanAtRest
    /\ RenderAtRest

\* the reports the operations are followed on: those of at most MaxItems
\* items, and those one item taller whose items below the tail are all the
\* item inextensible_record pushes
Followed(msgs) ==
    \/ Len(msgs) <= MaxItems
    \/ /\ Len(msgs) = MaxItems + 1
       /\ \A i \in 1..MaxItems : msgs[i] = InextensibleRec(Span_dummy)

RDo(op, kind, org, text, out) ==
    /\ rlast.op = "none"
    /\ Followed(messages)
    /\ messages' = out.messages
    /\ rlast' = RRecord(op, kind, org, text, out)
    /\ UNCHANGED <<slotVars, spanVars, renderVars, extVars>>

\* a call that also takes spans or an index
RDoWith(op, kind, org, text, pair, index, out) ==
    /\ rlast.op = "none"
    /\ Followed(messages)
    /\ messages' = out.messages
    /\ rlast' = [RRecord(op, kind, org, text, out) EXCEPT !.spans = pair, !.index = index]
    /\ UNCHANGED <<slotVars, spanVars, renderVars, extVars>>

\* not_sub, not_eq and cannot_union
AppendBinary ==
    \E kind \in KindInputs, org \in OrgInputs, text \in TextInputs :
        RDo("binary", kind, org, text,
            TypeReport_binary(messages, kind, org, text[1], text[2]))

\* not_sub_attach_span, not_eq_attach_span and cannot_union_attach_span
AttachSpan ==
    \E kind \in KindInputs, pair \in SpanInputs :
        RDoWith("attach_span", kind, "-", <<"", "">>, pair, None,
                TypeReport_binary_attach_span(messages, kind, pair[1], pair[2]))

\* not_sub_attach_index, not_eq_attach_index and cannot_union_attach_index
AttachIndex ==
    \E kind \in KindInputs, org \in OrgInputs, index \in IndexInputs :
        RDoWith("attach_index", kind, org, <<"", "">>, <<Span_dummy, Span_dummy>>, Some(index),
                TypeReport_binary_attach_index(messages, kind, org, index))

AppendInextensibleRecord ==
    RDo("inextensible_record", "-", "-", <<"", "">>,
        TypeReport_inextensible_record(messages))

AppendCannotUnionSingle ==
    \E t \in PushTextInputs :
        RDo("cannot_union_single", "-", "-", <<t, "">>,
            TypeReport_cannot_union_single(messages, t))

AppendLessArity ==
    \E lhs \in AritySpanInputs, t \in PushTextInputs, index \in IndexInputs :
        RDoWith("less_arity", "-", "-", <<"", t>>, <<lhs, Span_dummy>>, Some(index),
                TypeReport_less_arity(messages, lhs, without_loc(t), index))

AppendMoreArity ==
    \E t \in PushTextInputs, rhs \in AritySpanInputs, index \in IndexInputs :
        RDoWith("more_arity", "-", "-", <<t, "">>, <<Span_dummy, rhs>>, Some(index),
                TypeReport_more_arity(messages, without_loc(t), rhs, index))

AppendCannotAssign ==
    \E org \in PushOrgInputs, t \in PushTextInputs, u \in PushTextInputs :
        RDo("cannot_assign", "-", org, <<t, u>>,
            TypeReport_cannot_assign(messages, org, t, u))

AppendCannotAssignInPlace ==
    \E org \in PushOrgInputs, t \in PushTextInputs :
        RDo("cannot_assign_in_place", "-", org, <<t, "">>,
            TypeReport_cannot_assign_in_place(messages, org, t))

AppendCannotFilterByFlags ==
    \E org \in PushOrgInputs, t \in PushTextInputs :
        RDo("cannot_filter_by_flags", "-", org, <<t, "">>,
            TypeReport_cannot_filter_by_flags(messages, org, t))

AppendRecursiveRecord ==
    RDo("recursive_record", "-", "-", <<"", "">>,
        TypeReport_recursive_record(messages))

AppendRecordDuplicateKey ==
    \E k \in KeyInputs :
        RDo("record_duplicate_key", "-", "-", <<"", k>>,
            TypeReport_record_duplicate_key(messages, k))

AppendRecordCannotHaveKey ==
    \E k \in KeyInputs :
        RDo("record_cannot_have_key", "-", "-", <<"", k>>,
            TypeReport_record_cannot_have_key(messages, k))

AppendRecordShouldHaveKeys ==
    \E k \in KeyInputs :
        RDo("record_should_have_keys", "-", "-", <<"", k>>,
            TypeReport_record_should_have_keys(messages, <<k>>))

AppendRecordExtendedWithNonNil ==
    \E k \in KeyInputs, v \in PushTextInputs :
        RDo("record_extended_with_non_nil", "-", "-", <<v, k>>,
            TypeReport_record_extended_with_non_nil(messages, k, v))

\* the report is handed back to the caller (fluent accumulation)
RReturn ==
    /\ rlast.op # "none"
    /\ ~rlast.panicked
    /\ rlast' = RIdle
    /\ UNCHANGED <<messages, slotVars, spanVars, renderVars, extVars>>

NextReport ==
    \/ AppendBinary
    \/ AttachSpan
    \/ AttachIndex
    \/ AppendCannotUnionSingle
    \/ AppendLessArity
    \/ AppendMoreArity
    \/ AppendCannotAssign
    \/ AppendCannotAssignInPlace
    \/ AppendCannotFilterByFlags
    \/ AppendInextensibleRecord
    \/ AppendRecursiveRecord
    \/ AppendRecordDuplicateKey
    \/ AppendRecordCannotHaveKey
    \/ AppendRecordShouldHaveKeys
    \/ AppendRecordExtendedWithNonNil
    \/ RReturn

SpecReport == InitReport /\ [][NextReport]_vars

(***************************************************************************)
(* Properties of the slot lattice, stated over the last call: last.pa and  *)
(* last.pb are the S of the two operands when it was called.               *)
(***************************************************************************)
\* t is a structural subtype of u: neither is the dynamic placeholder
StructSub(t, u) == t.dyn = "No" /\ u.dyn = "No" /\ t.atoms \subseteq u.atoms

Called(op) == last.op = op

\* C1: assert_sub(a, b) succeeds whenever a's flex is Dynamic, or b's flex is
\* Dynamic, or b's flex is Any, whatever the two types are.
C1_AssertSubDynamicOrAny ==
    Called("assert_sub")
        /\ (IsDynamic(last.pa.flex) \/ IsDynamic(last.pb.flex) \/ last.pb.flex = F_Any)
    => last.ret = "Ok"

\* a Var slot against an Any slot of an unrelated type
C1_Witness ==
    /\ Called("assert_sub")
    /\ last.pa.flex = F_Var
    /\ last.pb.flex = F_Any
    /\ ~StructSub(last.pa.ty, last.pb.ty)
    /\ last.ret = "Ok"

\* C2: assert_sub on Var against Var succeeds exactly when the two types are
\* equal; a strict subtype (integer against number) and a strict supertype
\* both fail.
C2_AssertSubVarVar ==
    Called("assert_sub") /\ last.pa.flex = F_Var /\ last.pb.flex = F_Var
    => /\ last.ret = "Ok" <=> last.pa.ty = last.pb.ty
       /\ last.pa.ty = T_Integer /\ last.pb.ty = T_Number => last.ret # "Ok"
       /\ last.pa.ty = T_Number /\ last.pb.ty = T_Integer => last.ret # "Ok"

\* Var(integer) against Var(number) is refused
C2_Witness ==
    /\ Called("assert_sub")
    /\ last.pa = S(F_Var, T_Integer)
    /\ last.pb = S(F_Var, T_Number)
    /\ last.ret # "Ok"

\* C3: with neither side Dynamic, b not Any, and a Just or b Const,
\* assert_sub succeeds exactly when a's type is a structural subtype of b's:
\* Just(integer) <: Just(number) and Const(integer) <: Const(number) succeed
\* and the reversed pairs fail.
C3_AssertSubCovariant ==
    /\ Called("assert_sub")
    /\ ~IsDynamic(last.pa.flex)
    /\ ~IsDynamic(last.pb.flex)
    /\ last.pb.flex # F_Any
    /\ (last.pa.flex = F_Just \/ last.pb.flex = F_Const)
    => /\ last.ret = "Ok" <=> StructSub(last.pa.ty, last.pb.ty)
       /\ \A f \in {F_Just, F_Const} :
            /\ last.pa = S(f, T_Integer) /\ last.pb = S(f, T_Number) => last.ret = "Ok"
            /\ last.pa = S(f, T_Number) /\ last.pb = S(f, T_Integer) => last.ret # "Ok"

\* Const(integer) against Const(number) is accepted
C3_Witness ==
    /\ Called("assert_sub")
    /\ last.pa = S(F_Const, T_Integer)
    /\ last.pb = S(F_Const, T_Number)
    /\ last.ret = "Ok"

\* C4 as stated: assert_eq succeeds whenever either side's flex is Dynamic or
\* the right side's flex is Any, for every flex of the left side.
C4_AsStated ==
    Called("assert_eq")
        /\ (IsDynamic(last.pa.flex) \/ IsDynamic(last.pb.flex) \/ last.pb.flex = F_Any)
    => last.ret = "Ok"

\* C4: assert_eq succeeds, whatever the two types are, whenever either side's
\* flex is Dynamic or both sides' flex is Any; with an Any right side and a
\* Just, Const or Var left side it fails with not-equal.
C4_AssertEqDynamicOrBothAny ==
    Called("assert_eq")
    => /\ IsDynamic(last.pa.flex) \/ IsDynamic(last.pb.flex)
            \/ (last.pa.flex = F_Any /\ last.pb.flex = F_Any)
          => last.ret = "Ok"
       /\ last.pb.flex = F_Any /\ last.pa.flex \in {F_Just, F_Const, F_Var}
          => last.ret = "error_not_eq"

\* two distinct Any slots of different types compare equal
C4_Witness ==
    /\ Called("assert_eq")
    /\ last.a # last.b
    /\ last.pa.flex = F_Any
    /\ last.pb.flex = F_Any
    /\ last.pa.ty # last.pb.ty
    /\ last.ret = "Ok"

\* C5: the union of two distinct slots with flexes Var/Var, Var/Just or
\* Just/Var succeeds exactly when the two types are equal, and then returns
\* a Var slot of that type.
C5_UnionVar ==
    /\ Called("union")
    /\ last.a # last.b
    /\ <<last.pa.flex, last.pb.flex>> \in
            {<<F_Var, F_Var>>, <<F_Var, F_Just>>, <<F_Just, F_Var>>}
    => /\ last.ret = "Ok" <=> last.pa.ty = last.pb.ty
       /\ last.ret = "Ok" => /\ last.res \in Handles
                             /\ cells[last.res] = S(F_Var, last.pa.ty)

\* Var(integer) joined with Just(integer) gives Var(integer)
C5_Witness ==
    /\ Called("union")
    /\ last.a # last.b
    /\ last.pa = S(F_Var, T_Integer)
    /\ last.pb = S(F_Just, T_Integer)
    /\ last.ret = "Ok"
    /\ cells[last.res] = S(F_Var, T_Integer)

\* a successful accept on a Just cell of a value of a subtype
JustAccepted ==
    /\ Called("accept")
    /\ last.a # last.b
    /\ last.pa.flex = F_Just
    /\ StructSub(last.pb.ty, last.pa.ty)
    /\ ~IsDynamic(last.pb.flex)
    /\ last.ret = "Ok"

\* the cell behind every handle to it is now the S that Var of that type has
Promoted == JustAccepted => cells[last.a] = S(F_Var, last.pa.ty)

\* a cell that is Var stays Var for as long as it lives
VarStays ==
    \A c \in Handles :
        cells[c].flex = F_Var /\ Len(cells') >= Len(cells) => cells'[c].flex = F_Var

C7_AsStated ==
    Called("accept") /\ last.a # last.b /\ last.pa.flex = F_Const
    => /\ ~last.flag => last.ret # "Ok"
       /\ last.flag /\ StructSub(last.pb.ty, last.pa.ty) => last.ret = "Ok"
       /\ cells[last.a] = last.pa

\* C7: on a Const cell and a distinct rhs, accept outside initialization
\* fails for every rhs; at initialization it succeeds when rhs's flex is not
\* Any and rhs's type is a structural subtype of the cell's, and fails when
\* rhs's flex is Any; in every case the cell stays Const of the same type.
C7_ConstAccept ==
    Called("accept") /\ last.a # last.b /\ last.pa.flex = F_Const
    => /\ ~last.flag => last.ret # "Ok"
       /\ last.flag /\ last.pb.flex # F_Any /\ StructSub(last.pb.ty, last.pa.ty)
          => last.ret = "Ok"
       /\ last.flag /\ last.pb.flex = F_Any => last.ret # "Ok"
       /\ cells[last.a] = last.pa

\* Const(number) is initialized with an integer and stays Const(number)
C7_Witness ==
    /\ Called("accept")
    /\ last.a # last.b
    /\ last.flag
    /\ last.pa = S(F_Const, T_Number)
    /\ last.pb = S(F_Just, T_Integer)
    /\ last.ret = "Ok"
    /\ cells[last.a] = S(F_Const, T_Number)

\* C8: when both handles are the same cell, accept, union, assert_sub and
\* assert_eq each return success, whatever the flex and the flag, without
\* blocking on the cell's own lock, and leave the cell as it was.
C8_SameCell ==
    last.op \in {"accept", "union", "assert_sub", "assert_eq"} /\ last.a = last.b
    => /\ last.ret = "Ok"
       /\ last.a \in Handles
       /\ cells[last.a] = last.pa

\* a Const cell accepts itself outside initialization
C8_Witness ==
    /\ Called("accept")
    /\ last.a = last.b
    /\ ~last.flag
    /\ last.pa.flex = F_Const
    /\ last.ret = "Ok"

(***************************************************************************)
(* Properties of the type report, stated over the last call: rlast.pre is  *)
(* the report it was called on.                                            *)
(***************************************************************************)
\* a binary item was appended onto a report whose tail is a binary item
BinaryOntoBinary ==
    /\ rlast.op = "binary"
    /\ rlast.pre # <<>>
    /\ TailItem(rlast.pre).tag = "Binary"

SpanFree(item) == Span_is_dummy(item.lhs.span) /\ Span_is_dummy(item.rhs.span)

\* the report after the new item took the place of the tail: the new kind,
\* origin and texts with the spans and the index of the old tail
Replaced ==
    Append(Front(rlast.pre),
           Binary(rlast.kind, rlast.org,
                  with_loc(rlast.text[1], TailItem(rlast.pre).lhs.span),
                  with_loc(rlast.text[2], TailItem(rlast.pre).rhs.span),
                  TailItem(rlast.pre).idx))

\* the report after the new item was pushed above an untouched tail
Pushed ==
    Append(rlast.pre,
           Binary(rlast.kind, rlast.org, without_loc(rlast.text[1]),
                  without_loc(rlast.text[2]), None))

Frozen(item) == item.tag = "Binary" /\ ~SpanFree(item)

RefusedPairs ==
    {<<F_Const, F_Var>>, <<F_Const, F_Just>>, <<F_Var, F_Just>>,
     <<F_Any, F_Just>>, <<F_Any, F_Var>>}

\* C15: assert_sub(a, b) fails with the not-subtype error, whatever the two
\* types are (equal ones included), on the flex pairs (Const, Var),
\* (Const, Just), (Var, Just), (Any, Just) and (Any, Var), and these are all
\* the pairs outside the vacuous, Just-left / Const-right and Var/Var rules.
C15_AssertSubRefused ==
    Called("assert_sub")
    => /\ <<last.pa.flex, last.pb.flex>> \in RefusedPairs => last.ret = "error_not_sub"
       /\ /\ last.pb.flex # F_Any
          /\ ~IsDynamic(last.pa.flex) /\ ~IsDynamic(last.pb.flex)
          /\ last.pa.flex # F_Just /\ last.pb.flex # F_Const
          /\ <<last.pa.flex, last.pb.flex>> # <<F_Var, F_Var>>
          => <<last.pa.flex, last.pb.flex>> \in RefusedPairs

\* Const(integer) against Var(integer): equal types, still refused
C15_Witness ==
    /\ Called("assert_sub")
    /\ last.pa = S(F_Const, T_Integer)
    /\ last.pb = S(F_Var, T_Integer)
    /\ last.ret = "error_not_sub"

\* C16: assert_eq succeeds for Any/Any and whenever either side is Dynamic;
\* with the same flex among Just, Const, Var on both sides it succeeds exactly
\* when the types are equal; on every other flex pair it fails with not-equal
\* whatever the types; so the outcome is the same with the operands swapped.
C16_AssertEqTable ==
    Called("assert_eq")
    => /\ IF (last.pa.flex = F_Any /\ last.pb.flex = F_Any)
                \/ IsDynamic(last.pa.flex) \/ IsDynamic(last.pb.flex)
          THEN last.ret = "Ok"
          ELSE IF last.pa.flex = last.pb.flex
          THEN /\ last.pa.flex \in {F_Just, F_Const, F_Var}
               /\ last.ret = "Ok" <=> last.pa.ty = last.pb.ty
               /\ last.ret \in {"Ok", "TyNotEqual"}
          ELSE last.ret = "error_not_eq"
       /\ S_assert_eq(last.pb, last.pa) = "Ok" <=> last.ret = "Ok"
       /\ S_assert_eq(last.pb, last.pa) = "error_not_eq" <=> last.ret = "error_not_eq"

\* Const(integer) against Var(integer): mismatched flex, refused
C16_Witness ==
    /\ Called("assert_eq")
    /\ last.pa = S(F_Const, T_Integer)
    /\ last.pb = S(F_Var, T_Integer)
    /\ last.ret = "error_not_eq"

\* a union of two distinct cells
UnionOfDistinct == Called("union") /\ last.a # last.b

\* C17 as stated: whenever either input of a union of two distinct cells has
\* flex Any, the result is Any with type None whatever the other input's
\* flex and type, and the union does not fail.
C17_AsStated ==
    UnionOfDistinct /\ (last.pa.flex = F_Any \/ last.pb.flex = F_Any)
    => /\ last.ret = "Ok"
       /\ cells[last.res] = S(F_Any, T_None)

\* C17: whenever either input of a union of two distinct cells has flex Any
\* and neither has flex Dynamic, the result is Any with type None whatever
\* the other input's flex and type, and the union does not fail; when the
\* other input is Dynamic the result is Dynamic, not Any.
C17_AnyAbsorbsExceptDynamic ==
    UnionOfDistinct /\ (last.pa.flex = F_Any \/ last.pb.flex = F_Any)
    => /\ last.ret = "Ok"
       /\ cells[last.res] =
            IF IsDynamic(last.pa.flex) THEN S(last.pa.flex, T_Dynamic(DynOf(last.pa.flex)))
            ELSE IF IsDynamic(last.pb.flex) THEN S(last.pb.flex, T_Dynamic(DynOf(last.pb.flex)))
            ELSE S(F_Any, T_None)

\* Any(string) joined with Var(integer) gives Any(None)
C17_Witness ==
    /\ UnionOfDistinct
    /\ last.pa = S(F_Any, T_String)
    /\ last.pb = S(F_Var, T_Integer)
    /\ last.ret = "Ok"
    /\ cells[last.res] = S(F_Any, T_None)

\* C18: a union of two distinct cells of which at least one is Dynamic does
\* not fail, whatever the types; the result is Dynamic(k) with the dynamic
\* placeholder of kind k as its type, k being the union of both kinds when
\* both sides are Dynamic and the kind of the Dynamic side otherwise.
C18_UnionDynamic ==
    UnionOfDistinct /\ (IsDynamic(last.pa.flex) \/ IsDynamic(last.pb.flex))
    => LET k == IF IsDynamic(last.pa.flex) /\ IsDynamic(last.pb.flex)
                THEN DynUnion(DynOf(last.pa.flex), DynOf(last.pb.flex))
                ELSE IF IsDynamic(last.pa.flex) THEN DynOf(last.pa.flex)
                ELSE DynOf(last.pb.flex)
       IN  /\ last.ret = "Ok"
           /\ cells[last.res] = S(F_Dynamic(k), T_Dynamic(k))

\* Const(string) joined with an error-recovery Dynamic
C18_Witness ==
    /\ UnionOfDistinct
    /\ last.pa = S(F_Const, T_String)
    /\ last.pb.flex = F_Dynamic("Oops")
    /\ last.ret = "Ok"
    /\ cells[last.res] = S(F_Dynamic("Oops"), T_Dynamic("Oops"))

\* C19: for two distinct cells with flex among Just, Const, Var the result of
\* union is Just exactly when both are Just, Const exactly when at least one
\* is Const, and Var otherwise; in the Just/Just and Const cases the result
\* type is the union of the two types and the operation fails only when that
\* type union fails.
C19_UnionFlex ==
    /\ UnionOfDistinct
    /\ last.pa.flex \in {F_Just, F_Const, F_Var}
    /\ last.pb.flex \in {F_Just, F_Const, F_Var}
    => LET flex == IF last.pa.flex = F_Just /\ last.pb.flex = F_Just THEN F_Just
                   ELSE IF last.pa.flex = F_Const \/ last.pb.flex = F_Const THEN F_Const
                   ELSE F_Var
           u == TyUnion(last.pa.ty, last.pb.ty, last.flag)
       IN  /\ last.ret = "Ok" => cells[last.res].flex = flex
           /\ flex # F_Var => /\ last.ret = u.ret
                              /\ last.ret = "Ok" => cells[last.res].ty = u.ty

\* Just(integer) joined with Just(number) gives Just(number)
C19_Witness ==
    /\ UnionOfDistinct
    /\ last.pa = S(F_Just, T_Integer)
    /\ last.pb = S(F_Just, T_Number)
    /\ last.ret = "Ok"
    /\ cells[last.res] = S(F_Just, T_Number)

\* a union leaves both inputs as they were
UnionKeepsInputs ==
    Called("union") => cells[last.a] = last.pa /\ cells[last.b] = last.pb

\* the slot a successful union returns is a cell no input handle points to
UnionResultFresh ==
    Called("union") /\ last.ret = "Ok"
    => /\ last.res \notin {last.a, last.b}
       /\ last.res = Len(cells)

\* a step that allocates and frees nothing changes at most the cell of the
\* handle the operation was called on
OnlyReceiverChanges ==
    Len(cells') = Len(cells)
    => \A c \in Handles : c # last'.a => cells'[c] = cells[c]

\* C20 as stated: a union leaves both input cells unchanged, on success and on
\* failure, and returns a freshly allocated cell, so that nothing done later
\* through the result shows through a or b; also when a and b are the same
\* cell.
C20_AsStated ==
    [][UnionKeepsInputs' /\ UnionResultFresh' /\ OnlyReceiverChanges]_vars

\* C20: a union leaves both input cells unchanged, on success and on failure;
\* for two distinct cells the slot it returns is a freshly allocated cell, so
\* that nothing done later through the result shows through a or b; for two
\* handles to the same cell it returns a further handle to that cell.
C20_UnionFrame ==
    [][/\ UnionKeepsInputs'
       /\ (last.a # last.b => UnionResultFresh)'
       /\ (Called("union") /\ last.a = last.b => last.res = last.a /\ last.ret = "Ok")'
       /\ OnlyReceiverChanges]_vars

\* Just(integer) joined with Const(number): a third cell, both inputs as
\* they were
C20_Witness ==
    /\ UnionOfDistinct
    /\ last.pa = S(F_Just, T_Integer)
    /\ last.pb = S(F_Const, T_Number)
    /\ last.ret = "Ok"
    /\ last.res = 3
    /\ cells[last.res] = S(F_Const, T_Number)
    /\ cells[last.a] = last.pa
    /\ cells[last.b] = last.pb

(***************************************************************************)
(* The span state machine: a caller holding two spans builds new ones from *)
(* positions and combines the ones it holds.  A panic ends the process.    *)
(***************************************************************************)
\* the positions Span::new is called with: the dummy position, whose offset
\* is always zero, and the positions within the source units
PosInputs == {Pos_dummy} \cup {Pos(u, p) : u \in 1..MaxUnit, p \in 0..MaxPos}

\* the record of a Span call: its arguments, its result, its panic
SRecord(op, p1, p2, a, b, out) ==
    [op |-> op, p1 |-> p1, p2 |-> p2, a |-> a, b |-> b,
     out |-> out.span, panicked |-> out.panicked]

InitSpan ==
    /\ ExtAtRest
    /\ SlotAtRest
    /\ ReportAtRest
    /\ SpanAtRest
    /\ RenderAtRest

\* a Span call whose result the caller keeps in place k
SDo(op, p1, p2, a, b, out, k) ==
    /\ slast = SIdle
    /\ spans' = IF out.panicked THEN spans ELSE [spans EXCEPT ![k] = out.span]
    /\ slast' = SRecord(op, p1, p2, a, b, out)
    /\ UNCHANGED <<slotVars, reportVars, renderVars, extVars>>

SpanNew ==
    \E p1 \in PosInputs, p2 \in PosInputs, k \in 1..2 :
        SDo("new", p1, p2, Span_dummy, Span_dummy, Span_new(p1, p2), k)

SpanAnd ==
    \E i \in 1..2, j \in 1..2, k \in 1..2 :
        SDo("bitand", Pos_dummy, Pos_dummy, spans[i], spans[j],
            SOutcome(Span_bitand(spans[i], spans[j]), FALSE), k)

SpanOr ==
    \E i \in 1..2, j \in 1..2, k \in 1..2 :
        SDo("bitor", Pos_dummy, Pos_dummy, spans[i], spans[j],
            SOutcome(Span_bitor(spans[i], spans[j]), FALSE), k)

\* the caller takes the Span
SReturn ==
    /\ slast.op # "none"
    /\ ~slast.panicked
    /\ slast' = SIdle
    /\ UNCHANGED <<spans, slotVars, reportVars, renderVars, extVars>>

NextSpan ==
    \/ SpanNew
    \/ SpanAnd
    \/ SpanOr
    \/ SReturn

SpecSpan == InitSpan /\ [][NextSpan]_vars

(***************************************************************************)
(* Properties of spans, stated over the last call.                         *)
(***************************************************************************)
\* C13: Span::new(p1, p2) is the dummy span when either position is dummy,
\* even if the units differ; otherwise it panics when the positions are in
\* different units; otherwise it is (unit, min of the offsets, max of the
\* offsets), so that a reversed pair is swapped and begin <= end.
C13_SpanNew ==
    slast.op = "new"
    => IF Pos_is_dummy(slast.p1) \/ Pos_is_dummy(slast.p2)
       THEN ~slast.panicked /\ slast.out = Span_dummy
       ELSE IF slast.p1.unit # slast.p2.unit
       THEN slast.panicked
       ELSE /\ ~slast.panicked
            /\ slast.out.unit = slast.p1.unit
            /\ slast.out.begin \in {slast.p1.pos, slast.p2.pos}
            /\ slast.out.end \in {slast.p1.pos, slast.p2.pos}
            /\ slast.out.begin <= slast.p1.pos /\ slast.out.begin <= slast.p2.pos
            /\ slast.out.end >= slast.p1.pos /\ slast.out.end >= slast.p2.pos
            /\ slast.out.begin <= slast.out.end

\* two positions of one unit given in reverse order
C13_Witness ==
    /\ slast.op = "new"
    /\ slast.p1 = Pos(1, 2)
    /\ slast.p2 = Pos(1, 0)
    /\ slast.out = Span(1, 0, 2)
    /\ ~slast.panicked

\* C14 as stated: for any two spans whose units differ, both a & b and a | b
\* are the dummy span.
C14_AsStated ==
    slast.op \in {"bitand", "bitor"} /\ slast.a.unit # slast.b.unit
    => slast.out = Span_dummy

\* C14: for any two spans whose units differ, a & b is the dummy span; a | b
\* is the dummy span when neither is dummy, and is the other operand when one
\* of the two is the dummy span.
C14_AcrossUnits ==
    slast.op \in {"bitand", "bitor"} /\ slast.a.unit # slast.b.unit
    => IF slast.op = "bitand" THEN slast.out = Span_dummy
       ELSE IF Span_is_dummy(slast.a) THEN slast.out = slast.b
       ELSE IF Span_is_dummy(slast.b) THEN slast.out = slast.a
       ELSE slast.out = Span_dummy

\* the union of two located spans of different units
C14_Witness ==
    /\ slast.op = "bitor"
    /\ ~Span_is_dummy(slast.a)
    /\ ~Span_is_dummy(slast.b)
    /\ slast.a.unit # slast.b.unit
    /\ slast.out = Span_dummy

(***************************************************************************)
(* Report rendering (diag.rs, TypeReportMore::report_types).               *)
(***************************************************************************)
\* the longest report handed to the renderer
MaxDrain == 3

TypeReportHint == {"None", "FuncArgs", "MethodArgs", "Returns"}

\* the spelled-out ordinals of the default locale
OrdinalWords ==
    <<"first", "second", "third", "fourth", "fifth", "sixth", "seventh", "eighth", "ninth">>

\* a rendered ordinal: a spelled-out word, or a numeral followed by a suffix
Rendered(num, word) == [num |-> num, word |-> word]
NoIndex == Rendered(0, "")

\* Localize for Ordinal, default locale, lower case
Ordinal(i) ==
    IF i <= 8 THEN Rendered(0, OrdinalWords[i + 1])
    ELSE IF i % 10 = 0 /\ i % 100 # 10 THEN Rendered(i + 1, "-st")
    ELSE IF i % 10 = 1 /\ i % 100 # 10 THEN Rendered(i + 1, "-nd")
    ELSE IF i % 10 = 2 /\ i % 100 # 10 THEN Rendered(i + 1, "-rd")
    ELSE Rendered(i + 1, "-th")

\* a usize formatted as it is
Numeral(i) == Rendered(i, "")

\* a message of the catalogue: the name ends in the phrasing ("" is generic)
Message(base, phrasing, lhs, rhs, index) ==
    [base |-> base, phrasing |-> phrasing, lhs |-> lhs, rhs |-> rhs, index |-> index]

OtherTypeOrigin == Message("OtherTypeOrigin", "", "", "", NoIndex)

\* ReportMore::cause: a diagnostic of kind Cause at the span
cause(more, span, msg) == Append(more, [kind |-> "Cause", span |-> span, msg |-> msg])

\* ReportMore::note_if: a note at the span unless the span is dummy
note_if(more, span, msg) ==
    IF Span_is_dummy(span) THEN more
    ELSE Append(more, [kind |-> "Note", span |-> span, msg |-> msg])

\* the hint after an item and the messages it emitted
Reported(h, more) == [hint |-> h, more |-> more]

\* a variant of the tail of report_binary that always anchors at the left
\* operand
Anchored_AlwaysLeft(lhs, rhs, msg) ==
    note_if(cause(<<>>, lhs.span, msg), rhs.span, OtherTypeOrigin)

\* the tail shared by the arms of report_binary: anchor at the right operand
\* when only it is located
Anchored(lhs, rhs, msg) ==
    IF Span_is_dummy(lhs.span) /\ ~Span_is_dummy(rhs.span)
    THEN cause(<<>>, rhs.span, msg)
    ELSE note_if(cause(<<>>, lhs.span, msg), rhs.span, OtherTypeOrigin)

\* a variant of report_binary that leaves the hint as it is
report_binary_KeepsHint(base, lhs, rhs, idx, h) ==
    IF idx # None /\ h = "FuncArgs" THEN
        Reported(h, Anchored(lhs, rhs,
            Message(base, "InFuncArgs", lhs.base, rhs.base, Ordinal(CHOOSE i \in idx : TRUE))))
    ELSE IF idx = Some(0) /\ h = "MethodArgs" THEN
        Reported(h, Anchored(lhs, rhs, Message(base, "InSelf", lhs.base, rhs.base, NoIndex)))
    ELSE IF idx # None /\ h = "MethodArgs" THEN
        Reported(h, Anchored(lhs, rhs,
            Message(base, "InMethodArgs", lhs.base, rhs.base,
                    Ordinal((CHOOSE i \in idx : TRUE) - 1))))
    ELSE IF idx # None /\ h = "Returns" THEN
        Reported(h, Anchored(lhs, rhs,
            Message(base, "InReturns", lhs.base, rhs.base, Ordinal(CHOOSE i \in idx : TRUE))))
    ELSE Reported(h, Anchored(lhs, rhs, Message(base, "", lhs.base, rhs.base, NoIndex)))

\* a variant of report_binary that counts function arguments from zero
report_binary_FuncArgsOffByOne(base, lhs, rhs, idx, h) ==
    IF idx # None /\ h = "FuncArgs" THEN
        Reported("None", Anchored(lhs, rhs,
            Message(base, "InFuncArgs", lhs.base, rhs.base,
                    Ordinal((CHOOSE i \in idx : TRUE) + 1))))
    ELSE IF idx = Some(0) /\ h = "MethodArgs" THEN
        Reported("None", Anchored(lhs, rhs, Message(base, "InSelf", lhs.base, rhs.base, NoIndex)))
    ELSE IF idx # None /\ h = "MethodArgs" THEN
        Reported("None", Anchored(lhs, rhs,
            Message(base, "InMethodArgs", lhs.base, rhs.base,
                    Ordinal((CHOOSE i \in idx : TRUE) - 1))))
    ELSE IF idx # None /\ h = "Returns" THEN
        Reported("None", Anchored(lhs, rhs,
            Message(base, "InReturns", lhs.base, rhs.base, Ordinal(CHOOSE i \in idx : TRUE))))
    ELSE Reported(h, Anchored(lhs, rhs, Message(base, "", lhs.base, rhs.base, NoIndex)))

\* report_binary: the match on the index and the hint
report_binary(base, lhs, rhs, idx, h) ==
    IF idx # None /\ h = "FuncArgs" THEN
        Reported("None", Anchored(lhs, rhs,
            Message(base, "InFuncArgs", lhs.base, rhs.base, Ordinal(CHOOSE i \in idx : TRUE))))
    ELSE IF idx = Some(0) /\ h = "MethodArgs" THEN
        Reported("None", Anchored(lhs, rhs, Message(base, "InSelf", lhs.base, rhs.base, NoIndex)))
    ELSE IF idx # None /\ h = "MethodArgs" THEN
        Reported("None", Anchored(lhs, rhs,
            Message(base, "InMethodArgs", lhs.base, rhs.base,
                    Ordinal((CHOOSE i \in idx : TRUE) - 1))))
    ELSE IF idx # None /\ h = "Returns" THEN
        Reported("None", Anchored(lhs, rhs,
            Message(base, "InReturns", lhs.base, rhs.base, Ordinal(CHOOSE i \in idx : TRUE))))
    ELSE Reported(h, Anchored(lhs, rhs, Message(base, "", lhs.base, rhs.base, NoIndex)))

\* the message family of each kind of binary item
BinaryMessage(kind) ==
    IF kind = NotSubtype THEN "NotSubtype"
    ELSE IF kind = NotEqual THEN "NotEqual"
    ELSE "InvalidUnionType"

\* the body of the loop of report_types: one item of the report
report_item(item, h) ==
    LET i == CHOOSE i \in item.idx : TRUE IN
    IF item.tag = "Binary" THEN
        report_binary(BinaryMessage(item.kind), item.lhs, item.rhs, item.idx, h)
    ELSE IF item.tag = "LessArity" /\ h = "FuncArgs" THEN
        Reported("None",
            note_if(cause(<<>>, item.lhs.span,
                          Message("LessArity", "InFuncArgs", "", item.rhs.base, Ordinal(i))),
                    item.rhs.span, OtherTypeOrigin))
    ELSE IF item.tag = "MoreArity" /\ h = "FuncArgs" THEN
        Reported("None",
            note_if(cause(<<>>, item.rhs.span,
                          Message("MoreArity", "InFuncArgs", "", "", Numeral(i))),
                    item.lhs.span, OtherTypeOrigin))
    ELSE IF item.tag = "LessArity" /\ h = "MethodArgs" THEN
        Reported("None",
            note_if(cause(<<>>, item.lhs.span,
                          Message("LessArity", "InMethodArgs", "", item.rhs.base, Ordinal(i))),
                    item.rhs.span, OtherTypeOrigin))
    ELSE IF item.tag = "MoreArity" /\ h = "MethodArgs" THEN
        Reported("None",
            note_if(cause(<<>>, item.rhs.span,
                          Message("MoreArity", "InMethodArgs", "", "", Numeral(i))),
                    item.lhs.span, OtherTypeOrigin))
    ELSE IF item.tag = "LessArity" /\ h = "Returns" THEN
        Reported("None",
            note_if(cause(<<>>, item.rhs.span,
                          Message("LessArity", "InReturns", "", item.rhs.base, Ordinal(i))),
                    item.lhs.span, OtherTypeOrigin))
    ELSE IF item.tag = "MoreArity" /\ h = "Returns" THEN
        Reported("None",
            note_if(cause(<<>>, item.rhs.span,
                          Message("MoreArity", "InReturns", "", "", Numeral(i))),
                    item.lhs.span, OtherTypeOrigin))
    ELSE IF item.tag = "LessArity" THEN
        Reported(h,
            note_if(cause(<<>>, item.lhs.span,
                          Message("ArityMismatch", "", "", item.rhs.base, Ordinal(i))),
                    item.rhs.span, OtherTypeOrigin))
    ELSE IF item.tag = "MoreArity" THEN
        Reported(h,
            note_if(cause(<<>>, item.rhs.span,
                          Message("ArityMismatch", "", "", item.lhs.base, Ordinal(i))),
                    item.lhs.span, OtherTypeOrigin))
    ELSE IF item.tag = "CannotUnionSingle" THEN
        Reported(h, cause(<<>>, item.lhs.span,
                          Message("CannotUnionType", "", item.lhs.base, "", NoIndex)))
    ELSE IF item.tag = "CannotAssign" THEN
        Reported(h,
            note_if(cause(<<>>, item.lhs.span,
                          Message("CannotAssignInner", "", item.lhs.base, item.rhs.base, NoIndex)),
                    item.rhs.span, OtherTypeOrigin))
    ELSE IF item.tag = "CannotUpdate" THEN
        Reported(h, cause(<<>>, item.lhs.span,
                          Message("CannotUpdateInner", "", item.lhs.base, "", NoIndex)))
    ELSE IF item.tag = "CannotFilter" THEN
        Reported(h, cause(<<>>, item.lhs.span,
                          Message("CannotFilterInner", "", item.lhs.base, "", NoIndex)))
    ELSE IF item.tag = "RecExtendedWithNonNil" THEN
        Reported(h, cause(<<>>, item.lhs.span,
                          Message(item.tag, "", item.val.base, item.rhs.base, NoIndex)))
    ELSE
        \* InextensibleRec, RecursiveRec, RecDuplicateKey, RecCannotHaveKey and
        \* RecShouldHaveKeys: the message of the same name at the record's span
        Reported(h, cause(<<>>, item.lhs.span, Message(item.tag, "", "", item.rhs.base, NoIndex)))

(***************************************************************************)
(* The rendering state machine: a report built by the append operations is *)
(* handed to report_types with a hint and drained from its tail.           *)
(***************************************************************************)
\* the indices attached to the binary items
DrainIndexInputs == {0, 2, 9}

\* the items of the reports handed to the renderer
DrainItemInputs ==
    {Binary(NotSubtype, "Tables", without_loc("integer"), without_loc("number"), None),
     Binary(NotEqual, "TVar", without_loc("integer"), with_loc("number", Span(1, 1, 2)),
            Some(2)),
     LessArity(Span(1, 1, 2), without_loc("number"), 0),
     LessArity(Span(1, 1, 2), without_loc("number"), 1),
     MoreArity(with_loc("integer", Span(1, 1, 2)), Span_dummy, 1),
     CannotAssign("Slot", without_loc("integer"), without_loc("number")),
     Binary(NotEqual, "TVar", with_loc("integer", Span(1, 0, 1)),
            with_loc("number", Span(1, 1, 2)), None),
     InextensibleRec(Span_dummy)}
        \cup {Binary(NotSubtype, "Tables", with_loc("integer", Span(1, 1, 2)),
                     without_loc("number"), Some(i)) : i \in DrainIndexInputs}

\* a report the append operations can build: no binary item sits above a
\* binary item it would have replaced
Buildable(msgs) ==
    \A j \in 2..Len(msgs) :
        msgs[j].tag = "Binary"
        => Len(TypeReport_binary(SubSeq(msgs, 1, j - 1), msgs[j].kind, msgs[j].org,
                                 "", "").messages) = j

DrainInputs ==
    {msgs \in UNION {[1..n -> DrainItemInputs] : n \in 0..MaxDrain} : Buildable(msgs)}

InitRender ==
    /\ ExtAtRest
    /\ SlotAtRest
    /\ ReportAtRest
    /\ SpanAtRest
    /\ queue \in DrainInputs
    /\ hint \in TypeReportHint
    /\ rendered = <<>>

\* a variant of the loop of report_types that takes the items in the order
\* they were stored
RenderNext_StorageOrder ==
    /\ queue # <<>>
    /\ LET r == report_item(Head(queue), hint)
       IN  /\ queue' = Tail(queue)
           /\ hint' = r.hint
           /\ rendered' = Append(rendered, [item |-> Head(queue), before |-> hint,
                                            after |-> r.hint, more |-> r.more])
    /\ UNCHANGED <<slotVars, reportVars, spanVars, extVars>>

\* one turn of the loop over r.messages.into_iter().rev()
RenderNext ==
    /\ queue # <<>>
    /\ LET r == report_item(TailItem(queue), hint)
       IN  /\ queue' = Front(queue)
           /\ hint' = r.hint
           /\ rendered' = Append(rendered, [item |-> TailItem(queue), before |-> hint,
                                            after |-> r.hint, more |-> r.more])
    /\ UNCHANGED <<slotVars, reportVars, spanVars, extVars>>

NextRender == RenderNext

SpecRender == InitRender /\ [][NextRender]_vars

(***************************************************************************)
(* Properties of the rendering, stated over the items drained so far.      *)
(***************************************************************************)
\* the phrasings a hint selects
HintPhrasings == {"InFuncArgs", "InMethodArgs", "InSelf", "InReturns"}

\* the hint the rendering was started with
StartHint == IF rendered = <<>> THEN hint ELSE rendered[1].before

\* the drained items one of whose messages uses a phrasing of the hint
Specific ==
    {j \in 1..Len(rendered) :
        \E k \in 1..Len(rendered[j].more) : rendered[j].more[k].msg.phrasing \in HintPhrasings}

\* the messages with a phrasing of the hint, over all drained items
SpecificMessages ==
    {<<j, k>> \in (1..Len(rendered)) \X (1..2) :
        /\ k <= Len(rendered[j].more)
        /\ rendered[j].more[k].msg.phrasing \in HintPhrasings}

\* an arity item, or a binary item carrying an index
Indexed(item) == item.tag \in {"LessArity", "MoreArity"} \/ (item.tag = "Binary" /\ item.idx # None)

\* C11: while a report is rendered with a hint other than None, at most one
\* emitted message uses a phrasing of the hint; it belongs to the first item
\* in drain order that is an arity item or a binary item with an index; the
\* binary items without index before it leave the hint alone; after that item
\* the hint is None and every later item is rendered generically.
C11_HintConsumedOnce ==
    StartHint # "None"
    => /\ Cardinality(SpecificMessages) <= 1
       /\ \A j \in 1..Len(rendered) :
            LET first == \A i \in 1..(j - 1) : ~Indexed(rendered[i].item)
            IN  /\ first => rendered[j].before = StartHint
                /\ first /\ Indexed(rendered[j].item)
                   => j \in Specific /\ rendered[j].after = "None"
                /\ first /\ ~Indexed(rendered[j].item)
                   => j \notin Specific /\ rendered[j].after = StartHint
                /\ ~first => /\ j \notin Specific
                             /\ rendered[j].before = "None"
                             /\ rendered[j].after = "None"
       /\ (\E j \in 1..Len(rendered) : Indexed(rendered[j].item)) => hint = "None"

\* an item without index, then the item that takes the hint, then an indexed
\* item rendered generically
C11_Witness ==
    /\ StartHint = "MethodArgs"
    /\ Len(rendered) = 3
    /\ rendered[1].item.tag = "Binary" /\ rendered[1].item.idx = None
    /\ rendered[2].item.tag = "Binary" /\ rendered[2].item.idx = Some(0)
    /\ rendered[2].more[1].msg.phrasing = "InSelf"
    /\ rendered[3].item.tag = "LessArity"
    /\ rendered[3].more[1].msg.base = "ArityMismatch"
    /\ hint = "None"

\* the position a rendered ordinal names
PositionNamed(o) ==
    IF o.num # 0 THEN o.num
    ELSE CHOOSE n \in 1..Len(OrdinalWords) : OrdinalWords[n] = o.word

\* C12: rendering with the hint FuncArgs a binary item whose stored index is i
\* gives the function-argument phrasing naming position i + 1 (index 2 gives
\* "third") and leaves the hint None for every further item.
C12_FuncArgsOrdinal ==
    \A j \in 1..Len(rendered) :
        /\ rendered[j].before = "FuncArgs"
        /\ rendered[j].item.tag = "Binary"
        /\ rendered[j].item.idx # None
        => LET i == CHOOSE i \in rendered[j].item.idx : TRUE
               msg == rendered[j].more[1].msg
           IN  /\ msg.phrasing = "InFuncArgs"
               /\ PositionNamed(msg.index) = i + 1
               /\ i = 2 => msg.index.word = "third"
               /\ rendered[j].after = "None"
               /\ \A k \in (j + 1)..Len(rendered) : rendered[k].before = "None"
               /\ j = Len(rendered) => hint = "None"

\* index 2 rendered as the third function argument, a further item after it
C12_Witness ==
    /\ Len(rendered) = 2
    /\ rendered[1].before = "FuncArgs"
    /\ rendered[1].item.tag = "Binary"
    /\ rendered[1].item.idx = Some(2)
    /\ rendered[1].more[1].msg.phrasing = "InFuncArgs"
    /\ rendered[1].more[1].msg.index = Rendered(0, "third")
    /\ rendered[2].before = "None"


(***************************************************************************)
(* Properties of assignment (Slot::accept, Slot::accept_in_place).         *)
(***************************************************************************)
\* C21: for distinct cells, accept on a self whose flex is Dynamic always
\* succeeds, for every rhs flex (Any included) and both values of the flag;
\* and whenever self is not Dynamic and self or rhs is Any, accept fails,
\* again for both values of the flag.
C21_AcceptDynamicThenAny ==
    Called("accept") /\ last.a # last.b
    => /\ IsDynamic(last.pa.flex) => last.ret = "Ok"
       /\ ~IsDynamic(last.pa.flex) /\ (last.pa.flex = F_Any \/ last.pb.flex = F_Any)
          => last.ret = "impossible to assign"

\* a Dynamic cell takes an Any slot outside initialization
C21_Witness ==
    /\ Called("accept")
    /\ last.a # last.b
    /\ ~last.flag
    /\ IsDynamic(last.pa.flex)
    /\ last.pb.flex = F_Any
    /\ last.ret = "Ok"

\* C22 as stated: accept with a distinct rhs whose flex is Dynamic succeeds
\* for every flex of self, every pair of types and both values of the flag.
C22_AsStated ==
    Called("accept") /\ last.a # last.b /\ IsDynamic(last.pb.flex)
    => last.ret = "Ok"

\* C22: accept with a distinct rhs whose flex is Dynamic succeeds, whatever
\* the two types are, unless self's flex is Any or self's flex is Const
\* outside initialization, and in those two cases it fails.
C22_AcceptRhsDynamic ==
    Called("accept") /\ last.a # last.b /\ IsDynamic(last.pb.flex)
    => IF last.pa.flex = F_Any \/ (last.pa.flex = F_Const /\ ~last.flag)
       THEN last.ret = "impossible to assign"
       ELSE last.ret = "Ok"

\* a Var cell takes a Dynamic slot outside initialization
C22_Witness ==
    /\ Called("accept")
    /\ last.a # last.b
    /\ ~last.flag
    /\ last.pa.flex = F_Var
    /\ IsDynamic(last.pb.flex)
    /\ last.ret = "Ok"

\* C23: accept_in_place succeeds and leaves the cell as it was when its flex
\* is Dynamic or Var; fails and leaves the cell as it was when its flex is
\* Any or Const; succeeds and makes the flex Var, with the type kept, when
\* its flex is Just.  The type never decides the outcome.
C23_AcceptInPlace ==
    Called("accept_in_place")
    => /\ IsDynamic(last.pa.flex) \/ last.pa.flex = F_Var
          => last.ret = "Ok" /\ cells[last.a] = last.pa
       /\ last.pa.flex \in {F_Any, F_Const}
          => last.ret = "impossible to update" /\ cells[last.a] = last.pa
       /\ last.pa.flex = F_Just
          => last.ret = "Ok" /\ cells[last.a] = S(F_Var, last.pa.ty)

\* a Just cell of strings is updated in place and becomes Var
C23_Witness ==
    /\ Called("accept_in_place")
    /\ last.pa = S(F_Just, T_String)
    /\ last.ret = "Ok"
    /\ cells[last.a] = S(F_Var, T_String)


\* C24: when filter_by_flags fails on a cell, the cell's type afterwards is
\* the placeholder for "no valid type", whatever its prior type was; when it
\* succeeds the cell's type is the result of the filter; in both cases the
\* cell's flex is the one it had.
C24_FilterByFlags ==
    Called("filter_by_flags")
    => /\ cells[last.a].flex = last.pa.flex
       /\ last.ret # "Ok"
          => /\ cells[last.a].ty = NoValidType
             /\ last.pa.ty # NoValidType => cells[last.a].ty # last.pa.ty
       /\ last.ret = "Ok"
          => cells[last.a].ty = TyFilterByFlags(last.pa.ty, last.flex, last.flag).ty

\* narrowing a Var cell of numbers fails and leaves it Var without a type
C24_Witness ==
    /\ Called("filter_by_flags")
    /\ last.pa = S(F_Var, T_Number)
    /\ last.ret # "Ok"
    /\ cells[last.a] = S(F_Var, NoValidType)


(***************************************************************************)
(* Further properties of the type report.                                  *)
(***************************************************************************)
\* C25 as stated: a binary append onto a tail binary item of a different kind
\* keeps the tail and pushes the new item above it, for every origin of the
\* tail and of the new item.
C25_AsStated ==
    BinaryOntoBinary /\ TailItem(rlast.pre).kind # rlast.kind
    => messages = Pushed

\* C25: a binary append onto a tail binary item of a different kind keeps the
\* tail and pushes the new item above it, for every origin of the new item
\* and every origin of the tail but RVar; a tail of origin RVar is replaced
\* in place by an item of any kind.
C25_DifferentKindUnlessRVar ==
    BinaryOntoBinary /\ TailItem(rlast.pre).kind # rlast.kind
    => messages = IF TailItem(rlast.pre).org = "RVar" THEN Replaced ELSE Pushed

\* a not-equal item of a higher class is pushed above a span-free not-subtype
\* item
C25_Witness ==
    /\ BinaryOntoBinary
    /\ Len(rlast.pre) = 1
    /\ TailItem(rlast.pre).kind = NotSubtype
    /\ TailItem(rlast.pre).org = "TVar"
    /\ SpanFree(TailItem(rlast.pre))
    /\ rlast.kind = NotEqual
    /\ rlast.org = "Tables"
    /\ Len(messages) = 2
    /\ messages[1] = rlast.pre[1]

\* the tail an attach operation of the last call's kind applies to
TailOfKind ==
    /\ rlast.pre # <<>>
    /\ TailItem(rlast.pre).tag = "Binary"
    /\ TailItem(rlast.pre).kind = rlast.kind

\* C26: attach-span for a kind panics exactly when the report is empty, or
\* the tail is not a binary item of that kind, or either operand of the tail
\* already has a non-dummy span; otherwise it sets the two operand spans of
\* the tail and leaves its kind, origin, texts and index and every item below
\* it as they were.
C26_AttachSpan ==
    rlast.op = "attach_span"
    => /\ rlast.panicked <=> ~(TailOfKind /\ SpanFree(TailItem(rlast.pre)))
       /\ ~rlast.panicked
          => /\ Len(messages) = Len(rlast.pre)
             /\ Front(messages) = Front(rlast.pre)
             /\ TailItem(messages) =
                    Binary(TailItem(rlast.pre).kind, TailItem(rlast.pre).org,
                           with_loc(TailItem(rlast.pre).lhs.base, rlast.spans[1]),
                           with_loc(TailItem(rlast.pre).rhs.base, rlast.spans[2]),
                           TailItem(rlast.pre).idx)

\* spans are attached to the upper of two items, which already has its index
C26_Witness ==
    /\ rlast.op = "attach_span"
    /\ ~rlast.panicked
    /\ Len(rlast.pre) = 2
    /\ TailItem(rlast.pre).idx # None
    /\ ~SpanFree(TailItem(messages))
    /\ TailItem(messages).idx = TailItem(rlast.pre).idx
    /\ messages[1] = rlast.pre[1]

\* every index recorded in the report stays where it is and as it is
IndexKept ==
    \A i \in 1..Len(messages) :
        messages[i].tag = "Binary" /\ messages[i].idx # None
        => /\ i <= Len(messages')
           /\ messages'[i].idx = messages[i].idx

\* attach-index succeeds exactly on a tail binary item of the same kind and
\* origin without an index, and then records the index and nothing else
AttachIndexOnce ==
    rlast.op = "attach_index"
    => /\ ~rlast.panicked
          <=> /\ TailOfKind
              /\ TailItem(rlast.pre).org = rlast.org
              /\ TailItem(rlast.pre).idx = None
       /\ ~rlast.panicked
          => messages = [rlast.pre EXCEPT ![Len(rlast.pre)].idx = rlast.index]
       /\ rlast.panicked => messages = rlast.pre

\* C27: attach-index succeeds only when the tail is a binary item of the same
\* kind and the same origin that has no index yet, and panics otherwise, a
\* second attach-index on the same tail included; once set, the index at a
\* report position is the same after every later append or attach, a binary
\* append that replaces the tail in place included.
C27_IndexOnce == []AttachIndexOnce /\ [][IndexKept]_vars

\* a binary append replaced a tail that had its index, and the index is kept
C27_Witness ==
    /\ BinaryOntoBinary
    /\ Len(rlast.pre) = 2
    /\ TailItem(rlast.pre).idx = Some(0)
    /\ Len(messages) = Len(rlast.pre)
    /\ TailItem(messages).org # TailItem(rlast.pre).org
    /\ TailItem(messages).idx = Some(0)

\* the operations that always push one item
PushOps ==
    {"cannot_union_single", "less_arity", "more_arity", "cannot_assign",
     "cannot_assign_in_place", "cannot_filter_by_flags", "inextensible_record",
     "recursive_record", "record_duplicate_key", "record_cannot_have_key",
     "record_should_have_keys", "record_extended_with_non_nil"}

\* what the last call did to the report it was called on
TailOnly ==
    /\ rlast.op \in PushOps
       => Len(messages) = Len(rlast.pre) + 1 /\ Front(messages) = rlast.pre
    /\ rlast.op = "binary"
       => \/ Len(messages) = Len(rlast.pre) + 1 /\ Front(messages) = rlast.pre
          \/ /\ rlast.pre # <<>>
             /\ Len(messages) = Len(rlast.pre)
             /\ Front(messages) = Front(rlast.pre)
    /\ rlast.op \in {"attach_span", "attach_index"}
       => /\ Len(messages) = Len(rlast.pre)
          /\ rlast.pre # <<>> => Front(messages) = Front(rlast.pre)

\* the report never shrinks and the items below its tail stay as they are
BelowTailKept ==
    /\ Len(messages') >= Len(messages)
    /\ \A i \in 1..(Len(messages) - 1) : messages'[i] = messages[i]

\* C28: every report operation changes the report only at its tail: the
\* appends other than the binary ones push exactly one item and never
\* overwrite; a binary append replaces the tail or pushes one item; the attach
\* operations modify only the tail.  The length never decreases and every
\* item below the tail stays as it was when it stopped being the tail.
C28_TailOnly == []TailOnly /\ [][BelowTailKept]_vars

\* an arity item was pushed above a binary item that a binary append would
\* have replaced, and the item below that one is as it was
C28_Witness ==
    /\ rlast.op = "less_arity"
    /\ Len(rlast.pre) = 2
    /\ rlast.pre[2].tag = "Binary"
    /\ rlast.pre[2].org = "RVar"
    /\ Len(messages) = 3
    /\ messages[1] = rlast.pre[1]
    /\ messages[2] = rlast.pre[2]
    /\ messages[3].tag = "LessArity"


(***************************************************************************)
(* Further properties of the rendering.                                    *)
(***************************************************************************)
\* the primary messages among those an item emitted
Primary(more) == {k \in 1..Len(more) : more[k].kind = "Cause"}

\* every item drained so far emitted exactly one primary message
OnePrimaryEach ==
    \A j \in 1..Len(rendered) : Cardinality(Primary(rendered[j].more)) = 1

\* a step of the rendering takes the item stored last among those left
TailFirst ==
    /\ queue # <<>>
    /\ queue' = Front(queue)
    /\ Len(rendered') = Len(rendered) + 1
    /\ SubSeq(rendered', 1, Len(rendered)) = rendered
    /\ rendered'[Len(rendered')].item = TailItem(queue)

\* C29: rendering drains the stored items in the reverse of storage order:
\* each step emits the item stored last among those not yet emitted, so the
\* tail comes first and the item stored first comes last; every item emits
\* exactly one primary message, so when the report is drained the primary
\* messages are as many as the items it held.
C29_DrainOrder == []OnePrimaryEach /\ [][TailFirst]_vars

\* a report of three items is drained: the item emitted first has a note next
\* to its primary message
C29_Witness ==
    /\ queue = <<>>
    /\ Len(rendered) = 3
    /\ rendered[1].item.tag = "MoreArity"
    /\ Len(rendered[1].more) = 2
    /\ rendered[3].item.tag = "CannotAssign"
    /\ Cardinality(UNION {{<<j, k>> : k \in Primary(rendered[j].more)} : j \in 1..3}) = 3

\* the items rendered while the hint was MethodArgs that carry an index
TakesMethodArgs(j) ==
    /\ rendered[j].before = "MethodArgs"
    /\ Indexed(rendered[j].item)

\* the method-argument rendering of a stored index: "in self" for 0, the
\* ordinal of the explicit argument below it for the others
OffsetByOne(j) ==
    LET n == CHOOSE n \in rendered[j].item.idx : TRUE
        msg == rendered[j].more[1].msg
    IN  IF n = 0 THEN msg.phrasing = "InSelf"
        ELSE msg.phrasing = "InMethodArgs" /\ msg.index = Ordinal(n - 1)

\* C30 as stated: under the hint MethodArgs the item that takes the hint is
\* rendered "in self" when its stored index is 0 and as method argument
\* n - 1 when its stored index is n >= 1, binary and arity items alike.
C30_AsStated ==
    \A j \in 1..Len(rendered) : TakesMethodArgs(j) => OffsetByOne(j)

\* C30, the part the rendering satisfies: the offset is applied to binary
\* items; an arity item of stored index n is rendered as method argument n,
\* index 0 included, a missing one with the ordinal of n and a surplus one
\* with the number n itself.
C30_OffsetForBinaryOnly ==
    \A j \in 1..Len(rendered) :
        TakesMethodArgs(j)
        => LET n == CHOOSE n \in rendered[j].item.idx : TRUE
               msg == rendered[j].more[1].msg
           IN  /\ rendered[j].item.tag = "Binary" => OffsetByOne(j)
               /\ rendered[j].item.tag = "LessArity"
                  => msg.phrasing = "InMethodArgs" /\ msg.index = Ordinal(n)
               /\ rendered[j].item.tag = "MoreArity"
                  => msg.phrasing = "InMethodArgs" /\ msg.index = Numeral(n)

\* a missing argument of stored index 0 is rendered as the first method
\* argument, not "in self"
C30_Witness ==
    /\ Len(rendered) = 1
    /\ rendered[1].before = "MethodArgs"
    /\ rendered[1].item.tag = "LessArity"
    /\ rendered[1].item.idx = Some(0)
    /\ rendered[1].more[1].msg.phrasing = "InMethodArgs"
    /\ rendered[1].more[1].msg.index = Rendered(0, "first")


\* the items with two operands
TwoOperands(item) == item.tag \in {"Binary", "LessArity", "MoreArity", "CannotAssign"}

\* the spans of the notes an item emitted
NoteSpans(more) == {more[k].span : k \in {k \in 1..Len(more) : more[k].kind = "Note"}}

\* the primary message is at span at and the only possible note is at span
\* other, present exactly when that span is located
AnchoredAt(more, at, other) ==
    /\ more[1].kind = "Cause"
    /\ more[1].span = at
    /\ NoteSpans(more) = IF Span_is_dummy(other) THEN {} ELSE {other}

\* the rule of the binary items: the left operand unless only the right one
\* is located
LeftUnlessOnlyRight(more, lhs, rhs) ==
    IF Span_is_dummy(lhs) /\ ~Span_is_dummy(rhs)
    THEN more[1].kind = "Cause" /\ more[1].span = rhs /\ NoteSpans(more) = {}
    ELSE AnchoredAt(more, lhs, rhs)

\* C31 as stated: every rendered item with two operands has its primary
\* message at the left operand's span unless that span is dummy and the right
\* one is not, and then at the right operand's span; the other operand gets a
\* note only when its span is not dummy.
C31_AsStated ==
    \A j \in 1..Len(rendered) :
        TwoOperands(rendered[j].item)
        => LeftUnlessOnlyRight(rendered[j].more, rendered[j].item.lhs.span,
                               rendered[j].item.rhs.span)

\* C31: a rendered binary item has its primary message at the left operand's
\* span unless that span is dummy and the right one is not, and then at the
\* right operand's span, so its anchor is dummy only when both spans are.  The
\* other items with two operands have a fixed anchor whatever is located: a
\* missing-argument item at its left span, or at its right span when it takes
\* the Returns hint; a surplus-argument item at its right span; a cannot-assign
\* item at its left span.  In every case the other operand gets a note exactly
\* when its span is not dummy and it is not the anchor's fallback.
C31_AnchorRule ==
    \A j \in 1..Len(rendered) :
        LET item == rendered[j].item
            more == rendered[j].more
        IN  /\ item.tag = "Binary"
               => /\ LeftUnlessOnlyRight(more, item.lhs.span, item.rhs.span)
                  /\ Span_is_dummy(more[1].span)
                     => Span_is_dummy(item.lhs.span) /\ Span_is_dummy(item.rhs.span)
            /\ item.tag = "LessArity"
               => IF rendered[j].before = "Returns"
                  THEN AnchoredAt(more, item.rhs.span, item.lhs.span)
                  ELSE AnchoredAt(more, item.lhs.span, item.rhs.span)
            /\ item.tag = "MoreArity" => AnchoredAt(more, item.rhs.span, item.lhs.span)
            /\ item.tag = "CannotAssign" => AnchoredAt(more, item.lhs.span, item.rhs.span)

\* a binary item located only on the right is anchored there, and one located
\* on both sides is anchored on the left with a note on the right
C31_Witness ==
    /\ Len(rendered) = 2
    /\ rendered[1].item.tag = "Binary"
    /\ Span_is_dummy(rendered[1].item.lhs.span)
    /\ rendered[1].more = <<[kind |-> "Cause", span |-> Span(1, 1, 2),
                             msg |-> rendered[1].more[1].msg]>>
    /\ rendered[2].item.tag = "Binary"
    /\ rendered[2].more[1].span = Span(1, 0, 1)
    /\ NoteSpans(rendered[2].more) = {Span(1, 1, 2)}


(***************************************************************************)
(* Further properties of spans.                                            *)
(***************************************************************************)
\* an intersection of two located spans of the same unit was taken
SameUnitAnd ==
    /\ slast.op = "bitand"
    /\ ~Span_is_dummy(slast.a)
    /\ ~Span_is_dummy(slast.b)
    /\ slast.a.unit = slast.b.unit

\* C32 as stated: a & b for two non-dummy spans of the same unit is the dummy
\* span whenever max(a.begin, b.begin) >= min(a.end, b.end), two spans that
\* merely touch included; otherwise it is (unit, max of begins, min of ends).
C32_AsStated ==
    SameUnitAnd
    => slast.out = IF Max(slast.a.begin, slast.b.begin) >= Min(slast.a.end, slast.b.end)
                   THEN Span_dummy
                   ELSE Span(slast.a.unit, Max(slast.a.begin, slast.b.begin),
                             Min(slast.a.end, slast.b.end))

\* C32, what the intersection does: it is the dummy span only when the larger
\* begin is strictly beyond the smaller end; two spans that touch, or meet in
\* an empty span, give the located empty span at the meeting offset.
C32_TouchingIsLocated ==
    SameUnitAnd
    => slast.out = IF Max(slast.a.begin, slast.b.begin) > Min(slast.a.end, slast.b.end)
                   THEN Span_dummy
                   ELSE Span(slast.a.unit, Max(slast.a.begin, slast.b.begin),
                             Min(slast.a.end, slast.b.end))

\* [0, 1) and [1, 2) of unit 1 meet in the located empty span at 1
C32_Witness ==
    /\ slast.op = "bitand"
    /\ slast.a = Span(1, 0, 1)
    /\ slast.b = Span(1, 1, 2)
    /\ slast.out = Span(1, 1, 1)
    /\ ~Span_is_dummy(slast.out)


(***************************************************************************)
(* The span as an iterator over its positions (kailua_env/src/loc.rs).     *)
(***************************************************************************)
\* the largest offset of the spans iterated, the largest argument of nth and
\* the number of calls followed on one iterator
MaxEnd == 3
MaxNth == 1
MaxCalls == 5

\* the unit of the built-in definitions: the largest unit number, 0xffffffff in
\* the source and the largest integer of the model here
BUILTIN_UNIT == 2147483647

\* Span::builtin
Span_builtin == Span(BUILTIN_UNIT, 0, 0)

\* Span::is_source_dependent
Span_is_source_dependent(span) == span.unit > 0 /\ span.unit < BUILTIN_UNIT

\* Span::len, which size_hint and count return
Span_len(span) == IF Span_is_source_dependent(span) THEN span.end - span.begin ELSE 0

\* what a call on the iterator returns and the iterator it leaves
IterOut(ret, span) == [ret |-> ret, span |-> span]

\* a variant of Iterator::next that does not move past the position it
\* returns
Span_next_NoAdvance(self) ==
    IF Span_is_source_dependent(self) /\ self.begin < self.end
    THEN IterOut(Some(Pos(self.unit, self.begin)), self)
    ELSE IterOut(None, self)

\* Iterator::next for Span
Span_next(self) ==
    IF Span_is_source_dependent(self) /\ self.begin < self.end
    THEN IterOut(Some(Pos(self.unit, self.begin)), [self EXCEPT !.begin = self.begin + 1])
    ELSE IterOut(None, self)

\* Iterator::nth for Span
Span_nth(self, n) ==
    IF Span_is_source_dependent(self) /\ n < self.end - self.begin
    THEN IterOut(Some(Pos(self.unit, self.begin + n)), [self EXCEPT !.begin = self.begin + n])
    ELSE IterOut(None, self)

\* DoubleEndedIterator::next_back for Span
Span_next_back(self) ==
    IF Span_is_source_dependent(self) /\ self.begin < self.end
    THEN IterOut(Some(Pos(self.unit, self.end - 1)), [self EXCEPT !.end = self.end - 1])
    ELSE IterOut(None, self)

\* the spans iterated: every span of unit 1 up to MaxEnd, the dummy span and
\* the built-in span
IterInputs ==
    {sp \in [unit : {1}, begin : 0..MaxEnd, end : 0..MaxEnd] : sp.begin <= sp.end}
        \cup {Span_dummy, Span_builtin}

InitIter ==
    /\ SlotAtRest
    /\ ReportAtRest
    /\ SpanAtRest
    /\ RenderAtRest
    /\ FmtAtRest
    /\ ChainAtRest
    /\ unlifted = <<>>
    /\ \E sp \in IterInputs : iter = [orig |-> sp, cur |-> sp, calls |-> <<>>]

\* a call on the iterator: what it returned, the iterator before and after it
\* and the len() of the iterator it leaves
IterDo(op, n, out) ==
    /\ Len(iter.calls) < MaxCalls
    /\ iter' = [iter EXCEPT !.cur = out.span,
                            !.calls = Append(@, [op |-> op, n |-> n, ret |-> out.ret,
                                                 before |-> iter.cur, after |-> out.span,
                                                 len |-> Span_len(out.span)])]
    /\ UNCHANGED <<slotVars, reportVars, spanVars, renderVars, fmt, chain, unlifted>>

IterNext == IterDo("next", 0, Span_next(iter.cur))

IterNextBack == IterDo("next_back", 0, Span_next_back(iter.cur))

IterNth == \E n \in 0..MaxNth : IterDo("nth", n, Span_nth(iter.cur, n))

NextIter ==
    \/ IterNext
    \/ IterNextBack
    \/ IterNth

SpecIter == InitIter /\ [][NextIter]_vars

\* the calls among the first k that returned a position
Yielding(k) == {j \in 1..k : iter.calls[j].ret # None}

\* the positions the calls returned
Yielded == {CHOOSE p \in iter.calls[j].ret : TRUE : j \in Yielding(Len(iter.calls))}

\* only next and next_back were called
OnlyEnds == \A j \in 1..Len(iter.calls) : iter.calls[j].op \in {"next", "next_back"}

RECURSIVE NextTimes(_, _)
NextTimes(span, k) ==
    IF k = 1 THEN Span_next(span)
    ELSE Span_next(NextTimes(span, k - 1).span)

\* C39 as stated: nth(n) is next() called n + 1 times returning the last
\* result: it returns the position begin + n when n < end - begin and None
\* otherwise, and leaves the iterator just after that position.
C39_AsStated ==
    \A k \in 1..Len(iter.calls) :
        LET call == iter.calls[k] IN
        call.op = "nth"
        => /\ call.ret = NextTimes(call.before, call.n + 1).ret
           /\ call.after = NextTimes(call.before, call.n + 1).span

\* C39, what nth does: it returns the position begin + n when n < end - begin
\* and None otherwise, as n + 1 calls of next would; it moves begin by n only,
\* so the iterator is left at the position returned, and it leaves the
\* iterator as it was when it returns None.
C39_NthStaysOnItem ==
    \A k \in 1..Len(iter.calls) :
        LET call == iter.calls[k] IN
        call.op = "nth"
        => /\ call.ret = NextTimes(call.before, call.n + 1).ret
           /\ call.after = IF call.ret = None THEN call.before
                           ELSE [call.before EXCEPT !.begin = call.before.begin + call.n]

\* nth(1) on [0, 3) returned offset 1 and the next() after it returned offset
\* 1 again
C39_Witness ==
    /\ iter.orig = Span(1, 0, 3)
    /\ Len(iter.calls) = 2
    /\ iter.calls[1].op = "nth"
    /\ iter.calls[1].n = 1
    /\ iter.calls[1].ret = Some(Pos(1, 1))
    /\ iter.calls[2].op = "next"
    /\ iter.calls[2].ret = Some(Pos(1, 1))


(***************************************************************************)
(* The formatters of diag.rs: ordinals and quoted key lists.  A text is    *)
(* the sequence of the pieces written; BQ stands for the backquote and the  *)
(* Korean pieces are romanized.                                            *)
(***************************************************************************)
\* the largest index given to Ordinal and the longest key list formatted
MaxOrdinal == 112
MaxKeys == 3

Locales == {"en", "ko"}

OrdinalWords_ko ==
    <<"cheot-beonjjae", "du-beonjjae", "se-beonjjae", "ne-beonjjae", "daseot-beonjjae",
      "yeoseot-beonjjae", "ilgop-beonjjae", "yeodeol-beonjjae", "ahop-beonjjae">>

\* Localize for Ordinal: the "ko" arm, and the default arm in lower case
Ordinal_localized(i, locale) ==
    IF locale = "ko"
    THEN IF i <= 8 THEN Rendered(0, OrdinalWords_ko[i + 1]) ELSE Rendered(i + 1, "beonjjae")
    ELSE Ordinal(i)

\* the loop of Display for QuotedList: cur is written when another element
\* follows it, after the separator unless it is the first one
RECURSIVE QuotedList_loop(_, _, _, _, _)
QuotedList_loop(rest, cur, first, out, sep) ==
    IF rest = <<>> THEN [cur |-> cur, first |-> first, out |-> out]
    ELSE QuotedList_loop(Tail(rest), Head(rest), FALSE,
                         (IF first THEN out ELSE Append(out, sep)) \o <<cur>>, sep)

\* Display for QuotedList with the pieces written between two elements and
\* before the last one
QuotedList_write(keys, sep, conj) ==
    IF keys = <<>> THEN <<>>
    ELSE LET l == QuotedList_loop(Tail(keys), Head(keys), TRUE, <<"BQ">>, sep)
         IN  (IF ~l.first THEN Append(l.out, conj) ELSE l.out) \o <<l.cur, "BQ">>

\* a variant of Display for QuotedList that joins the last element with the
\* separator of the others
QuotedList_fmt_CommaOnly(keys, locale) == QuotedList_write(keys, "BQ, BQ", "BQ, BQ")

\* Display for QuotedList
QuotedList_fmt(keys, locale) ==
    QuotedList_write(keys, "BQ, BQ", IF locale = "ko" THEN "BQ mit BQ" ELSE "BQ and BQ")

\* the keys and the lists of keys formatted
FmtKeyInputs == {"a", "b", "c"}
FmtListInputs == UNION {[1..n -> FmtKeyInputs] : n \in 0..MaxKeys}

InitFmt ==
    /\ SlotAtRest
    /\ ReportAtRest
    /\ SpanAtRest
    /\ RenderAtRest
    /\ IterAtRest
    /\ ChainAtRest
    /\ unlifted = <<>>
    /\ \E i \in 0..MaxOrdinal, keys \in FmtListInputs, locale \in Locales :
           fmt = [FmtIdle EXCEPT !.index = i, !.keys = keys, !.locale = locale]

\* Ordinal(index) is formatted under the locale
FormatOrdinal ==
    /\ fmt.op = "none"
    /\ fmt' = [fmt EXCEPT !.op = "ordinal", !.ord = Ordinal_localized(fmt.index, fmt.locale)]
    /\ UNCHANGED <<slotVars, reportVars, spanVars, renderVars, iter, chain, unlifted>>

\* QuotedList::new(keys, locale).to_string()
FormatQuotedList ==
    /\ fmt.op = "none"
    /\ fmt' = [fmt EXCEPT !.op = "quoted_list", !.text = QuotedList_fmt(fmt.keys, fmt.locale)]
    /\ UNCHANGED <<slotVars, reportVars, spanVars, renderVars, iter, chain, unlifted>>

NextFmt ==
    \/ FormatOrdinal
    \/ FormatQuotedList

SpecFmt == InitFmt /\ [][NextFmt]_vars

\* an ordinal was formatted under the default locale
DefaultOrdinal == fmt.op = "ordinal" /\ fmt.locale = "en"

\* the English suffix of the number n
EnglishSuffix(n) ==
    IF n % 10 = 1 /\ n % 100 # 11 THEN "-st"
    ELSE IF n % 10 = 2 /\ n % 100 # 12 THEN "-nd"
    ELSE IF n % 10 = 3 /\ n % 100 # 13 THEN "-rd"
    ELSE "-th"

\* C34 as stated: under the default locale Ordinal(i) is the word for position
\* i + 1 when i <= 8, and for i >= 9 the number n = i + 1 followed by -st when
\* n ends in 1 but not 11, -nd when n ends in 2 but not 12, -rd when n ends in
\* 3 but not 13, and -th otherwise.
C34_AsStated ==
    DefaultOrdinal
    => fmt.ord = IF fmt.index <= 8 THEN Rendered(0, OrdinalWords[fmt.index + 1])
                 ELSE Rendered(fmt.index + 1, EnglishSuffix(fmt.index + 1))

\* C34, what the formatter writes: the word for position i + 1 when i <= 8;
\* for i >= 9 the number n = i + 1 followed by -st when n ends in 1 but not
\* 11, by -nd whenever n ends in 2 and by -rd whenever n ends in 3, 12 and 13
\* included, and by -th otherwise.
C34_TeensOnlyForSt ==
    DefaultOrdinal
    => LET n == fmt.index + 1 IN
       fmt.ord = IF fmt.index <= 8 THEN Rendered(0, OrdinalWords[n])
                 ELSE IF n % 10 = 1 /\ n % 100 # 11 THEN Rendered(n, "-st")
                 ELSE IF n % 10 = 2 THEN Rendered(n, "-nd")
                 ELSE IF n % 10 = 3 THEN Rendered(n, "-rd")
                 ELSE Rendered(n, "-th")

\* Ordinal(111) is written 112-nd
C34_Witness ==
    /\ DefaultOrdinal
    /\ fmt.index = 111
    /\ fmt.ord = Rendered(112, "-nd")

\* the conjunction of a locale
Conjunction(locale) == IF locale = "ko" THEN "BQ mit BQ" ELSE "BQ and BQ"

\* C35: the key-list formatter writes nothing for no key and the one key between backquotes for one
\* key; for n >= 2 keys it writes every key between backquotes, each once and
\* in the order given, the first n - 1 separated by comma and space and the
\* last one joined by the locale's conjunction, with no comma before it.
C35_QuotedList ==
    fmt.op = "quoted_list"
    => LET n == Len(fmt.keys)
           text == fmt.text
       IN  IF n = 0 THEN text = <<>>
           ELSE /\ Len(text) = 2 * n + 1
                /\ text[1] = "BQ"
                /\ text[2 * n + 1] = "BQ"
                /\ \A k \in 1..n : text[2 * k] = fmt.keys[k]
                /\ \A k \in 1..(n - 2) : text[2 * k + 1] = "BQ, BQ"
                /\ n >= 2 => text[2 * n - 1] = Conjunction(fmt.locale)

\* three keys under the Korean locale
C35_Witness ==
    /\ fmt.op = "quoted_list"
    /\ fmt.locale = "ko"
    /\ fmt.keys = <<"a", "b", "a">>
    /\ fmt.text = <<"BQ", "a", "BQ, BQ", "b", "BQ mit BQ", "a", "BQ">>


(***************************************************************************)
(* The diagnostic sinks and the ReportMore chain (kailua_diag/report.rs).  *)
(***************************************************************************)
\* the calls followed on one chain
MaxChain == 4

Kinds == {"Note", "Warning", "Error", "Fatal"}

\* the sinks: ConsoleReport, CollectedReport and NoReport
Sinks == {"Console", "Collected", "No"}

\* Report::add_span of each sink: what it returns and the diagnostics the
\* sink has taken so far
Report_add_span(sink, collected, kind) ==
    IF sink = "No" THEN [ret |-> "Stop", collected |-> collected]
    ELSE [ret |-> IF kind = "Fatal" THEN "Stop" ELSE "Ok",
          collected |-> Append(collected, kind)]

\* Reporter::fatal / error / warn / note: the result the new ReportMore
\* carries; fatal panics when the sink lets a fatal diagnostic through
Reporter_report(sink, collected, kind) ==
    LET r == Report_add_span(sink, collected, kind)
    IN  [ret |-> r.ret, collected |-> r.collected,
         panicked |-> kind = "Fatal" /\ r.ret = "Ok"]

\* Result::and, which ReportMore::fatal joins the results with
Result_and(result, ret) == IF result = "Ok" THEN ret ELSE result

\* a variant of the join of ReportMore::error / warn / note that keeps the
\* result of the latest call
ReportMore_join_Latest(result, ret) == ret

\* the join of ReportMore::error / warn / note
ReportMore_join(result, ret) == IF ret = "Stop" THEN "Stop" ELSE result

\* ReportMore::fatal / error / warn / note: the result of the chain so far and
\* of this call
ReportMore_report(result, kind, ret) ==
    IF kind = "Fatal" THEN Result_and(result, ret) ELSE ReportMore_join(result, ret)

InitChain ==
    /\ SlotAtRest
    /\ ReportAtRest
    /\ SpanAtRest
    /\ RenderAtRest
    /\ IterAtRest
    /\ FmtAtRest
    /\ unlifted = <<>>
    /\ ChainAtRest

\* sink.fatal(..) / error / warn / note: a chain begins
ChainStart ==
    \E sink \in Sinks, kind \in Kinds :
        /\ chain = ChainIdle
        /\ LET r == Reporter_report(sink, <<>>, kind)
           IN  chain' = [sink |-> sink, collected |-> r.collected,
                         calls |-> <<[kind |-> kind, ret |-> r.ret]>>,
                         result |-> r.ret, done |-> "-", panicked |-> r.panicked]
        /\ UNCHANGED <<slotVars, reportVars, spanVars, renderVars, iter, fmt, unlifted>>

\* more.fatal(..) / error / warn / note on the chain
ChainMore ==
    \E kind \in Kinds :
        /\ chain # ChainIdle
        /\ chain.done = "-"
        /\ ~chain.panicked
        /\ Len(chain.calls) < MaxChain
        /\ LET r == Reporter_report(chain.sink, chain.collected, kind)
           IN  chain' = [chain EXCEPT !.collected = r.collected,
                                      !.calls = Append(@, [kind |-> kind, ret |-> r.ret]),
                                      !.result = ReportMore_report(@, kind, r.ret),
                                      !.panicked = r.panicked]
        /\ UNCHANGED <<slotVars, reportVars, spanVars, renderVars, iter, fmt, unlifted>>

\* more.done()
ChainDone ==
    /\ chain # ChainIdle
    /\ chain.done = "-"
    /\ ~chain.panicked
    /\ chain' = [chain EXCEPT !.done = chain.result]
    /\ UNCHANGED <<slotVars, reportVars, spanVars, renderVars, iter, fmt, unlifted>>

NextChain ==
    \/ ChainStart
    \/ ChainMore
    \/ ChainDone

SpecChain == InitChain /\ [][NextChain]_vars

\* C36: the stop signal is sticky along a chain: once a call of the chain got
\* Err(Stop) from the sink the chain carries Err(Stop), whatever the calls
\* after it got, and done() returns it; a chain with a fatal call carries
\* Err(Stop); the collecting and the console sink return Stop from add_span
\* exactly for the kind Fatal.
C36_StickyStop ==
    /\ (\E k \in 1..Len(chain.calls) : chain.calls[k].ret = "Stop") => chain.result = "Stop"
    /\ (\E k \in 1..Len(chain.calls) : chain.calls[k].kind = "Fatal") => chain.result = "Stop"
    /\ chain.done # "-" => chain.done = chain.result
    /\ chain.sink \in {"Console", "Collected"}
       => \A k \in 1..Len(chain.calls) :
              chain.calls[k].ret = "Stop" <=> chain.calls[k].kind = "Fatal"

\* a fatal diagnostic on the collecting sink followed by a note and a warning
\* that the sink let through: done() returned Err(Stop)
C36_Witness ==
    /\ chain.sink = "Collected"
    /\ Len(chain.calls) = 3
    /\ chain.calls[1] = [kind |-> "Fatal", ret |-> "Stop"]
    /\ chain.calls[2] = [kind |-> "Note", ret |-> "Ok"]
    /\ chain.calls[3] = [kind |-> "Warning", ret |-> "Ok"]
    /\ chain.collected = <<"Fatal", "Note", "Warning">>
    /\ chain.done = "Stop"


(***************************************************************************)
(* The lock of a cell across Slot operations (kailua_check/ty/slot.rs).    *)
(* A guard taken inside an operation is a local and is released when the   *)
(* operation returns; the guard of unlift is moved into the UnliftedSlot   *)
(* returned and is held until the caller drops that value.                 *)
(***************************************************************************)
\* the UnliftedSlot values a caller keeps alive at a time
MaxUnlifted == 1

\* Ty::with_nil and Ty::without_nil: nil joins or leaves the values admitted
TyWithNil(t) == IF t.dyn # "No" THEN t ELSE [t EXCEPT !.atoms = @ \cup {"nil"}]
TyWithoutNil(t) == IF t.dyn # "No" THEN t ELSE [t EXCEPT !.atoms = @ \ {"nil"}]

\* a variant of Slot::unlift whose guard is released on return
Slot_unlift_Released(held, a) == held

\* Slot::unlift: the read guard lives in the UnliftedSlot returned
Slot_unlift(held, a) == Append(held, a)

\* Slot::flex and Slot::flags: a read of the cell
Slot_flex(cs, a) == Outcome("Ok", cs, 0)
Slot_flags(cs, a) == Outcome("Ok", cs, 0)

\* Slot::with_nil and Slot::without_nil: a new cell made from a clone of S
Slot_with_nil(cs, a) == Slot_new(cs, S(cs[a].flex, TyWithNil(cs[a].ty)))
Slot_without_nil(cs, a) == Slot_new(cs, S(cs[a].flex, TyWithoutNil(cs[a].ty)))

\* the guards an operation takes, in the order it takes them
OpGuards(op, a, b) ==
    IF op \in {"adapt", "accept_in_place", "filter_by_flags"} THEN <<Guard(a, "write")>>
    ELSE IF op \in {"unlift", "flex", "flags", "with_nil", "without_nil"} THEN <<Guard(a, "read")>>
    ELSE IF op = "accept" THEN (IF a = b THEN <<>> ELSE <<Guard(a, "write"), Guard(b, "read")>>)
    ELSE IF op = "union" THEN (IF a = b THEN <<>> ELSE <<Guard(a, "write"), Guard(b, "write")>>)
    ELSE IF op \in {"assert_sub", "assert_eq"} THEN <<Guard(a, "read"), Guard(b, "read")>>
    ELSE <<>>

\* the read guards of the UnliftedSlot values alive
HeldGuards(held) == [k \in 1..Len(held) |-> Guard(held[k], "read")]

\* the slots created
LockSlotInputs == {S(F_Just, T_Integer)}

InitLock ==
    /\ SlotAtRest
    /\ ReportAtRest
    /\ SpanAtRest
    /\ RenderAtRest
    /\ ExtAtRest

\* an operation called while some UnliftedSlot values are alive: it blocks for
\* good when a guard it needs is excluded by one held
LockDo(op, a, b, flag, flex, out) ==
    /\ last = NoOp
    /\ Len(cells) <= MaxCells
    /\ LET blocked == Blocks(HeldGuards(unlifted) \o OpGuards(op, a, b))
           res == IF blocked THEN Outcome("Deadlock", cells, 0) ELSE out
       IN  /\ cells' = res.cells
           /\ last' = Record(op, a, b, flag, flex, res)
           /\ unlifted' = IF op = "unlift" /\ ~blocked THEN Slot_unlift(unlifted, a)
                          ELSE unlifted
    /\ UNCHANGED <<reportVars, spanVars, renderVars, iter, fmt, chain>>

LNew ==
    \E s0 \in LockSlotInputs :
        /\ Len(cells) < MaxCells
        /\ LockDo("new", 0, 0, FALSE, "-", Slot_new(cells, s0))

LUnlift ==
    \E a \in Handles :
        /\ Len(unlifted) < MaxUnlifted
        /\ LockDo("unlift", a, a, FALSE, "-", Outcome("Ok", cells, 0))

LAdapt == \E a \in Handles : LockDo("adapt", a, a, FALSE, F_Var, Slot_adapt(cells, a, F_Var))

LAccept ==
    \E a \in Handles, b \in Handles :
        LockDo("accept", a, b, FALSE, "-", Slot_accept(cells, a, b, FALSE))

LAcceptInPlace ==
    \E a \in Handles :
        LockDo("accept_in_place", a, a, FALSE, "-", Slot_accept_in_place(cells, a))

LFilterByFlags ==
    \E a \in Handles :
        LockDo("filter_by_flags", a, a, TRUE, "T_INTEGER",
               Slot_filter_by_flags(cells, a, "T_INTEGER", TRUE))

LFlex == \E a \in Handles : LockDo("flex", a, a, FALSE, "-", Slot_flex(cells, a))

LFlags == \E a \in Handles : LockDo("flags", a, a, FALSE, "-", Slot_flags(cells, a))

LWithNil == \E a \in Handles : LockDo("with_nil", a, a, FALSE, "-", Slot_with_nil(cells, a))

LWithoutNil ==
    \E a \in Handles : LockDo("without_nil", a, a, FALSE, "-", Slot_without_nil(cells, a))

LUnion ==
    \E a \in Handles, b \in Handles :
        LockDo("union", a, b, TRUE, "-", Slot_union(cells, a, b, TRUE))

LAssertSub ==
    \E a \in Handles, b \in Handles :
        LockDo("assert_sub", a, b, FALSE, "-", Slot_assert_sub(cells, a, b))

LAssertEq ==
    \E a \in Handles, b \in Handles :
        LockDo("assert_eq", a, b, FALSE, "-", Slot_assert_eq(cells, a, b))

\* the caller takes the result of the operation
LReturn ==
    /\ last # NoOp
    /\ last.ret # "Deadlock"
    /\ last' = NoOp
    /\ UNCHANGED <<cells, unlifted, reportVars, spanVars, renderVars, iter, fmt, chain>>

\* the caller drops an UnliftedSlot and its read guard is released
LDropUnlifted ==
    \E k \in 1..Len(unlifted) :
        /\ last = NoOp
        /\ unlifted' = [j \in 1..(Len(unlifted) - 1) |->
                            IF j < k THEN unlifted[j] ELSE unlifted[j + 1]]
        /\ UNCHANGED <<cells, last, reportVars, spanVars, renderVars, iter, fmt, chain>>

\* the last handle to a cell no UnliftedSlot borrows goes away
LDrop ==
    \E i \in Handles :
        /\ last = NoOp
        /\ \A k \in 1..Len(unlifted) : unlifted[k] # i
        /\ cells' = [j \in 1..(Len(cells) - 1) |-> IF j < i THEN cells[j] ELSE cells[j + 1]]
        /\ unlifted' = [k \in 1..Len(unlifted) |->
                            IF unlifted[k] > i THEN unlifted[k] - 1 ELSE unlifted[k]]
        /\ UNCHANGED <<last, reportVars, spanVars, renderVars, iter, fmt, chain>>

NextLock ==
    \/ LNew
    \/ LUnlift
    \/ LAdapt
    \/ LAccept
    \/ LAcceptInPlace
    \/ LFilterByFlags
    \/ LFlex
    \/ LFlags
    \/ LWithNil
    \/ LWithoutNil
    \/ LUnion
    \/ LAssertSub
    \/ LAssertEq
    \/ LReturn
    \/ LDropUnlifted
    \/ LDrop

SpecLock == InitLock /\ [][NextLock]_vars

\* C37 as stated: when a Slot operation has returned no lock is still held,
\* and no operation blocks.
C37_AsStated == unlifted = <<>> /\ last.ret # "Deadlock"

\* the cells an operation takes the write lock of
WriteCells(op, a, b) ==
    IF op \in {"adapt", "accept_in_place", "filter_by_flags"} THEN {a}
    ELSE IF op = "accept" /\ a # b THEN {a}
    ELSE IF op = "union" /\ a # b THEN {a, b}
    ELSE {}

\* a Slot operation is called
LockCalled == last = NoOp /\ last' # NoOp

\* what a call does to the locks held
ReleasedOnReturn ==
    LockCalled
    => LET blocked == \E k \in 1..Len(unlifted) :
                          unlifted[k] \in WriteCells(last'.op, last'.a, last'.b)
       IN  /\ last'.ret = "Deadlock" <=> blocked
           /\ unlifted' = IF last'.op = "unlift" THEN Append(unlifted, last'.a) ELSE unlifted

\* C37: every Slot operation other than unlift returns with the locks it took
\* released: the locks held after it are those held before it.  unlift
\* returns holding a read lock on its cell, which lasts until the caller
\* drops the UnliftedSlot.  While one is alive the operations that read the
\* cell go through and an operation that needs the write lock of that cell
\* blocks; no operation blocks otherwise, so none blocks while no UnliftedSlot
\* is alive.
C37_ReleasedExceptUnlift == [][ReleasedOnReturn]_vars

\* with the UnliftedSlot of a cell alive, a read of the cell went through and
\* adapt on it blocks
C37_Witness ==
    /\ Len(cells) = 2
    /\ unlifted = <<1>>
    /\ last.op = "adapt"
    /\ last.a = 1
    /\ last.ret = "Deadlock"


(***************************************************************************)
(* The frame of accept and the flex of a cell over its life.               *)
(***************************************************************************)
\* accept reached its Just arm and the comparison of the types succeeded
JustArmSucceeds ==
    /\ last.a # last.b
    /\ last.pa.flex = F_Just
    /\ last.pb.flex # F_Any
    /\ ~IsDynamic(last.pb.flex)
    /\ TyAssertSub(last.pb.ty, last.pa.ty) = "Ok"

\* C38: accept changes the target cell in exactly one case: self is Just, the
\* distinct rhs is neither Any nor Dynamic and the subtype check succeeds, and
\* then the flex becomes Var and the type is kept.  In every other case the
\* cell is as it was: a failed accept never promotes a Just cell and a
\* successful accept of a Dynamic rhs leaves a Just cell Just.  The rhs cell is
\* never changed.
C38_AcceptFrame ==
    Called("accept")
    => /\ cells[last.a] = IF JustArmSucceeds THEN S(F_Var, last.pa.ty) ELSE last.pa
       /\ JustArmSucceeds => last.ret = "Ok"
       /\ last.ret # "Ok" => cells[last.a] = last.pa
       /\ IsDynamic(last.pb.flex) => cells[last.a] = last.pa
       /\ last.a # last.b => cells[last.b] = last.pb

\* a Just cell took a Dynamic rhs and is still Just, the rhs as it was
C38_Witness ==
    /\ Called("accept")
    /\ last.a # last.b
    /\ last.pa = S(F_Just, T_Number)
    /\ IsDynamic(last.pb.flex)
    /\ last.ret = "Ok"
    /\ cells[last.a] = S(F_Just, T_Number)
    /\ cells[last.b] = last.pb

\* a step that is a call of a Slot operation
SlotCalled == last = NoOp /\ last' # NoOp

\* the flex of cell c changes in this step only from Just, to Var by accept,
\* accept_in_place or adapt(Var) on it and to Const by adapt(Const) on it
FlexStep(c) ==
    \/ cells'[c].flex = cells[c].flex
    \/ /\ cells[c].flex = F_Just
       /\ SlotCalled
       /\ last'.a = c
       /\ \/ /\ cells'[c].flex = F_Var
             /\ \/ last'.op \in {"accept", "accept_in_place"}
                \/ last'.op = "adapt" /\ last'.flex = F_Var
          \/ /\ cells'[c].flex = F_Const
             /\ last'.op = "adapt"
             /\ last'.flex = F_Const

\* the cells keep their places unless a handle is dropped, and then the ones
\* left are as they were
CellsKept ==
    \/ Len(cells') >= Len(cells)
    \/ \E i \in Handles :
           cells' = [j \in 1..(Len(cells) - 1) |-> IF j < i THEN cells[j] ELSE cells[j + 1]]

\* adapt on a cell that is not Just, or for a flex other than Const and Var,
\* changes nothing
AdaptNoOp ==
    SlotCalled /\ last'.op = "adapt"
        /\ (cells[last'.a].flex # F_Just \/ last'.flex \notin {F_Const, F_Var})
    => cells' = cells

\* C40: the flex of a cell is monotone over every sequence of adapt, accept,
\* accept_in_place, filter_by_flags, union, assert_sub and assert_eq calls on
\* any handle to it: the only changes are Just to Var, by accept,
\* accept_in_place and adapt(Var), and Just to Const, by adapt(Const); a cell
\* that is Any, Dynamic, Const or Var keeps its flex for as long as it lives;
\* adapt on a cell that is not Just, or for a flex other than Const and Var,
\* changes nothing.
C40_FlexMonotone ==
    [][/\ CellsKept
       /\ Len(cells') >= Len(cells) => \A c \in Handles : FlexStep(c)
       /\ AdaptNoOp]_vars

\* adapt(Const) made a Just cell Const next to a cell that is Var
C40_Witness ==
    /\ Called("adapt")
    /\ last.flex = F_Const
    /\ last.pa.flex = F_Just
    /\ cells[last.a].flex = F_Const
    /\ \E c \in Handles : cells[c].flex = F_Var

=============================================================================
